---------------------------- MODULE Spec2Model ----------------------------
(***************************************************************************)
(* Region-chain reconciliation of address records (AddressCompleter).      *)
(*                                                                         *)
(* A Python value is modelled as a record [k, s]: k = "str" with the       *)
(* characters s, k = "int" for a truthy non-string value (it has no        *)
(* .strip()), k = "none" for None.  A character is a one-letter string,    *)
(* " " is the whitespace character.  Columns of the region table are       *)
(* character sequences; <<>> stands for NULL or '' (the code treats both   *)
(* alike) and parent_id 0 stands for NULL.                                 *)
(***************************************************************************)
EXTENDS Integers, Sequences, FiniteSets, TLC

VARIABLES
    store,     \* the region table (never written)
    response,  \* the caller's ExtractResponse object, response.Data its record
    given,     \* the value response had when the call started
    result,    \* complete_address's working copy of the record
    ret,       \* the response complete_extract_response returns
    pc,        \* position of the call: idle, a pending store lookup, or done
    query,     \* the pending store lookup
    current,   \* get_parent_chain: current
    level,     \* get_parent_chain: level
    chain,     \* get_parent_chain: chain
    lookups,   \* the store lookups this call has issued, with their outcomes
    pass,      \* number of the running call
    failed,    \* some store lookup of this or an earlier call raised
    excepted,  \* the except clause of complete_address ran in this call
    escaped,   \* an exception left complete_address
    input,     \* the argument of the text function or converter being applied
    output,    \* what it has produced so far
    stage,     \* the position of that application
    calls,     \* concurrent complete calls: the locals of each suspended call
    running    \* concurrent complete calls: the call whose locals the variables above are

completerVars == <<store, response, given, result, ret, pc, query, current,
                   level, chain, lookups, pass, failed, excepted, escaped>>
textVars == <<input, output, stage>>
concVars == <<calls, running>>

vars == <<completerVars, textVars, concVars>>

(***************************************************************************)
(* Bounds of the model.                                                    *)
(***************************************************************************)
\* number of consecutive complete calls, each fed the previous one's output
MaxPasses == 2

(***************************************************************************)
(* Program constants.                                                      *)
(***************************************************************************)
REGION_TYPE_PROVINCE == 1001
REGION_TYPE_CITY == 1002
REGION_TYPE_EXP_AREA == 1003
REGION_TYPE_STREET == 1004
max_levels == 4

HierarchyFields == {"ProvinceName", "CityName", "ExpAreaName", "StreetName"}
OtherKeys == {"Address", "Mobile", "Name"}
Keys == HierarchyFields \cup OtherKeys

region_type_map ==
    [f \in HierarchyFields |->
        CASE f = "ProvinceName" -> REGION_TYPE_PROVINCE
          [] f = "CityName" -> REGION_TYPE_CITY
          [] f = "ExpAreaName" -> REGION_TYPE_EXP_AREA
          [] f = "StreetName" -> REGION_TYPE_STREET]

(***************************************************************************)
(* Python values and str.strip().                                          *)
(***************************************************************************)
Str(s) == [k |-> "str", s |-> s]
IntVal == [k |-> "int", s |-> <<>>]
NoneVal == [k |-> "none", s |-> <<>>]

\* bool(v): a non-empty string or a non-zero number
Truthy(v) == (v.k = "int") \/ (v.k = "str" /\ v.s # <<>>)

RECURSIVE lstrip(_)
lstrip(s) == IF s # <<>> /\ Head(s) = " " THEN lstrip(Tail(s)) ELSE s

RECURSIVE rstrip(_)
rstrip(s) ==
    IF s # <<>> /\ s[Len(s)] = " " THEN rstrip(SubSeq(s, 1, Len(s) - 1)) ELSE s

strip(s) == rstrip(lstrip(s))

\* v.strip() raises AttributeError on a value that is not a string
StripRaises(v) == v.k # "str"

(***************************************************************************)
(* The region table.  None stands for "no row".                            *)
(***************************************************************************)
None == [id |-> 0, parent_id |-> 0, region_name |-> <<>>, region_type |-> 0,
         alias_name |-> <<>>, is_deleted |-> 0]

Region(i, p, n, t, a, d) ==
    [id |-> i, parent_id |-> p, region_name |-> n, region_type |-> t,
     alias_name |-> a, is_deleted |-> d]

\* LIMIT 1 over the matching rows: the table's first match, rows in id order
FirstRow(rows) ==
    IF rows = {} THEN None
    ELSE CHOOSE r \in rows : \A o \in rows : r.id <= o.id

\* mutant: the is_deleted = 0 condition is missing
SelectByTypeAndNameDeleted(st, t, n) ==
    FirstRow({r \in st : r.region_type = t /\ r.region_name = n})

\* WHERE region_type = %s AND region_name = %s AND is_deleted = 0 LIMIT 1
SelectByTypeAndName(st, t, n) ==
    FirstRow({r \in st : r.region_type = t /\ r.region_name = n /\ r.is_deleted = 0})

\* WHERE region_name = %s AND is_deleted = 0 LIMIT 1
SelectByName(st, n) ==
    FirstRow({r \in st : r.region_name = n /\ r.is_deleted = 0})

\* WHERE id = %s AND is_deleted = 0 LIMIT 1
SelectById(st, i) ==
    FirstRow({r \in st : r.id = i /\ r.is_deleted = 0})

\* WHERE region_type = %s AND id = %s AND is_deleted = 0 LIMIT 1
SelectByTypeAndId(st, t, i) ==
    FirstRow({r \in st : r.region_type = t /\ r.id = i /\ r.is_deleted = 0})


(***************************************************************************)
(* Store lookups of AddressCompleter.  raised says whether execute_one     *)
(* raised (connection or query failure); each lookup catches it, logs and  *)
(* returns None.                                                           *)
(***************************************************************************)
\* the guard before the query: no query for an empty or blank name
NameQueryIssued(region_name) == region_name # <<>> /\ strip(region_name) # <<>>

find_region_by_name(st, raised, region_name, region_type) ==
    IF ~NameQueryIssued(region_name) THEN None
    ELSE IF raised THEN None
    ELSE IF region_type # 0
         THEN SelectByTypeAndName(st, region_type, strip(region_name))
         ELSE SelectByName(st, strip(region_name))

find_region_by_id(st, raised, region_id) ==
    IF region_id = 0 THEN None
    ELSE IF raised THEN None
    ELSE SelectById(st, region_id)

\* mutant: the parent is looked up by id alone, whatever its type
find_parent_by_id_only(st, raised, parent_region_type, parent_id) ==
    IF parent_region_type = 0 \/ parent_id = 0 THEN None
    ELSE IF raised THEN None
    ELSE SelectById(st, parent_id)

find_parent_by_type_and_id(st, raised, parent_region_type, parent_id) ==
    IF parent_region_type = 0 \/ parent_id = 0 THEN None
    ELSE IF raised THEN None
    ELSE SelectByTypeAndId(st, parent_region_type, parent_id)

\* 0 stands for None: the top level, or an unknown type
get_parent_region_type(current_region_type) ==
    IF current_region_type = region_type_map["StreetName"]
    THEN region_type_map["ExpAreaName"]
    ELSE IF current_region_type = region_type_map["ExpAreaName"]
    THEN region_type_map["CityName"]
    ELSE IF current_region_type = region_type_map["CityName"]
    THEN region_type_map["ProvinceName"]
    ELSE 0

(***************************************************************************)
(* get_parent_chain: the chain map and one iteration of the walk.          *)
(***************************************************************************)
NoInfo == [present |-> FALSE, region_name |-> <<>>, alias_name |-> <<>>]
EmptyChain == [f \in HierarchyFields |-> NoInfo]

\* region_info of the current region: NULL name as '', alias stripped
region_info(cur) ==
    [present |-> TRUE, region_name |-> cur.region_name,
     alias_name |-> IF cur.alias_name # <<>> THEN strip(cur.alias_name) ELSE <<>>]

\* chain[field of the region's type] = region_info; unknown types are not recorded
RecordInChain(ch, cur) ==
    IF cur.region_type = region_type_map["StreetName"]
    THEN [ch EXCEPT !["StreetName"] = region_info(cur)]
    ELSE IF cur.region_type = region_type_map["ExpAreaName"]
    THEN [ch EXCEPT !["ExpAreaName"] = region_info(cur)]
    ELSE IF cur.region_type = region_type_map["CityName"]
    THEN [ch EXCEPT !["CityName"] = region_info(cur)]
    ELSE IF cur.region_type = region_type_map["ProvinceName"]
    THEN [ch EXCEPT !["ProvinceName"] = region_info(cur)]
    ELSE ch

NoQuery == [kind |-> "none", name |-> <<>>, type |-> 0, id |-> 0]

\* mutant: the level bound of the loop is missing
WalkUnbounded(cur, lvl) == cur # None

\* mutant: the walk stops one level early
WalkStopsEarly(cur, lvl) == cur # None /\ lvl < max_levels - 1

\* the loop condition: while current and level < max_levels
WalkContinues(cur, lvl) == cur # None /\ lvl < max_levels

\* One iteration from the loop head up to the next store lookup.  more is
\* FALSE when the loop ends (condition false, or break on a missing
\* parent_id); otherwise query is the parent lookup the iteration issues.
WalkStep(cur, lvl, ch) ==
    IF ~WalkContinues(cur, lvl)
    THEN [more |-> FALSE, chain |-> ch, query |-> NoQuery]
    ELSE IF cur.parent_id = 0
    THEN [more |-> FALSE, chain |-> RecordInChain(ch, cur), query |-> NoQuery]
    ELSE IF get_parent_region_type(cur.region_type) = 0
    THEN [more |-> TRUE, chain |-> RecordInChain(ch, cur),
          query |-> [kind |-> "id", name |-> <<>>, type |-> 0,
                     id |-> cur.parent_id]]
    ELSE [more |-> TRUE, chain |-> RecordInChain(ch, cur),
          query |-> [kind |-> "type_id", name |-> <<>>,
                     type |-> get_parent_region_type(cur.region_type),
                     id |-> cur.parent_id]]

(***************************************************************************)
(* Field reconciliation.                                                   *)
(***************************************************************************)
normalize_region_name(name) == IF name = <<>> THEN <<>> ELSE strip(name)

is_region_name_equal(name1, name2) ==
    normalize_region_name(name1) = normalize_region_name(name2)

\* current_value = result.get(f, "").strip() if result.get(f) else ""
CurrentValue(v) == IF Truthy(v) THEN strip(v.s) ELSE <<>>

\* mutant: the alias comparison is missing
update_field_ignoring_alias(res, field_name, parent_chain) ==
    IF ~parent_chain[field_name].present THEN [res |-> res, raised |-> FALSE]
    ELSE IF Truthy(res[field_name]) /\ StripRaises(res[field_name])
    THEN [res |-> res, raised |-> TRUE]
    ELSE IF /\ CurrentValue(res[field_name]) # <<>>
            /\ is_region_name_equal(CurrentValue(res[field_name]),
                                    parent_chain[field_name].region_name)
    THEN [res |-> res, raised |-> FALSE]
    ELSE [res |-> [res EXCEPT ![field_name] =
                       Str(parent_chain[field_name].region_name)],
          raised |-> FALSE]

\* mutant: a value that matches neither name is kept
update_field_keeping_mismatch(res, field_name, parent_chain) ==
    IF ~parent_chain[field_name].present THEN [res |-> res, raised |-> FALSE]
    ELSE IF Truthy(res[field_name]) /\ StripRaises(res[field_name])
    THEN [res |-> res, raised |-> TRUE]
    ELSE IF CurrentValue(res[field_name]) = <<>>
    THEN [res |-> [res EXCEPT ![field_name] =
                       Str(parent_chain[field_name].region_name)],
          raised |-> FALSE]
    ELSE [res |-> res, raised |-> FALSE]

\* mutant: a field below the province is filled only once the record's
\* ProvinceName holds a value
update_field_under_province(res, field_name, parent_chain) ==
    IF ~parent_chain[field_name].present THEN [res |-> res, raised |-> FALSE]
    ELSE IF field_name # "ProvinceName" /\ CurrentValue(res["ProvinceName"]) = <<>>
    THEN [res |-> res, raised |-> FALSE]
    ELSE IF CurrentValue(res[field_name]) = <<>>
    THEN [res |-> [res EXCEPT ![field_name] =
                       Str(parent_chain[field_name].region_name)],
          raised |-> FALSE]
    ELSE [res |-> res, raised |-> FALSE]

\* [res, raised]: the record after the call and whether the call raised
update_field_if_needed(res, field_name, parent_chain) ==
    IF ~parent_chain[field_name].present THEN [res |-> res, raised |-> FALSE]
    ELSE IF Truthy(res[field_name]) /\ StripRaises(res[field_name])
    THEN [res |-> res, raised |-> TRUE]
    ELSE IF CurrentValue(res[field_name]) = <<>>
    THEN [res |-> [res EXCEPT ![field_name] =
                       Str(parent_chain[field_name].region_name)],
          raised |-> FALSE]
    ELSE IF is_region_name_equal(CurrentValue(res[field_name]),
                                 parent_chain[field_name].region_name)
    THEN [res |-> res, raised |-> FALSE]
    ELSE IF /\ parent_chain[field_name].alias_name # <<>>
            /\ strip(parent_chain[field_name].alias_name) # <<>>
            /\ is_region_name_equal(CurrentValue(res[field_name]),
                                    parent_chain[field_name].alias_name)
    THEN [res |-> res, raised |-> FALSE]
    ELSE [res |-> [res EXCEPT ![field_name] =
                       Str(parent_chain[field_name].region_name)],
          raised |-> FALSE]

\* the order of the four calls in complete_address
UpdateOrder == <<"ProvinceName", "CityName", "ExpAreaName", "StreetName">>

\* the calls from the i-th on; an exception skips the remaining ones
RECURSIVE UpdateFrom(_, _, _)
UpdateFrom(res, i, parent_chain) ==
    IF i > Len(UpdateOrder) THEN [res |-> res, raised |-> FALSE]
    ELSE IF update_field_if_needed(res, UpdateOrder[i], parent_chain).raised
    THEN [res |-> update_field_if_needed(res, UpdateOrder[i], parent_chain).res,
          raised |-> TRUE]
    ELSE UpdateFrom(update_field_if_needed(res, UpdateOrder[i], parent_chain).res,
                    i + 1, parent_chain)

(***************************************************************************)
(* Start-point selection of complete_address.                              *)
(***************************************************************************)
\* mutant: the least specific field is tried first
StartOrderTopDown == <<"ProvinceName", "CityName", "ExpAreaName", "StreetName">>

StartOrder == <<"StreetName", "ExpAreaName", "CityName", "ProvinceName">>

\* data.get(f) and data.get(f).strip(), tried from the i-th field on
RECURSIVE StartFrom(_, _)
StartFrom(d, i) ==
    IF i > Len(StartOrder)
    THEN [raised |-> FALSE, found |-> FALSE, field |-> "", value |-> <<>>, type |-> 0]
    ELSE IF ~Truthy(d[StartOrder[i]]) THEN StartFrom(d, i + 1)
    ELSE IF StripRaises(d[StartOrder[i]])
    THEN [raised |-> TRUE, found |-> FALSE, field |-> "", value |-> <<>>, type |-> 0]
    ELSE IF strip(d[StartOrder[i]].s) = <<>> THEN StartFrom(d, i + 1)
    ELSE [raised |-> FALSE, found |-> TRUE, field |-> StartOrder[i],
          value |-> d[StartOrder[i]].s, type |-> region_type_map[StartOrder[i]]]

SelectStart(d) == StartFrom(d, 1)


(***************************************************************************)
(* The variables of the other components, while only complete runs.        *)
(***************************************************************************)
TextUnused == input = <<>> /\ output = <<>> /\ stage = "unused"
ConcUnused == calls = <<>> /\ running = 0

(***************************************************************************)
(* Inputs: region tables and records.                                      *)
(***************************************************************************)
\* A well-formed fragment (S -> D -> C -> P, T -> E -> C) whose parent
\* pointers pp (of province P), pd (of district D) and pe (of district E)
\* vary, so that the tables include a province with a parent_id (naming
\* itself, or closing a cycle through E and C), a parent_id naming a row of a
\* higher or lower level and a missing parent; row 7 is a deleted street.
StoreOf(pp, pd, pe) ==
    { Region(1, pp, <<"P">>, REGION_TYPE_PROVINCE, <<>>, 0),
      Region(2, 1, <<"C">>, REGION_TYPE_CITY, <<"K", " ">>, 0),
      Region(3, pd, <<"D">>, REGION_TYPE_EXP_AREA, <<>>, 0),
      Region(4, 3, <<"S">>, REGION_TYPE_STREET, <<>>, 0),
      Region(5, 6, <<"T">>, REGION_TYPE_STREET, <<>>, 0),
      Region(6, pe, <<"E">>, REGION_TYPE_EXP_AREA, <<>>, 0),
      Region(7, 3, <<"Z">>, REGION_TYPE_STREET, <<>>, 1) }

Stores ==
    { StoreOf(pp, pd, pe) : pp \in {0, 1, 5, 6}, pd \in {2, 1, 5}, pe \in {2, 0} }

StreetValues == { Str(<<>>), Str(<<" ">>), Str(<<"S">>), Str(<<" ", "S">>),
                  Str(<<"Z">>), IntVal }
ExpAreaValues == { Str(<<>>), Str(<<"D">>), Str(<<"Z">>), IntVal }
CityValues == { Str(<<>>), Str(<<"C">>), Str(<<"c">>), Str(<<"K">>), Str(<<"Z">>),
                IntVal }
ProvinceValues == { Str(<<>>), Str(<<"P">>), Str(<<"Z">>), NoneVal }
NameValues == { Str(<<>>), Str(<<"n">>) }

Records ==
    { [ProvinceName |-> p, CityName |-> c, ExpAreaName |-> e, StreetName |-> s,
       Address |-> Str(<<"a">>), Mobile |-> Str(<<"1">>), Name |-> n] :
        p \in ProvinceValues, c \in CityValues, e \in ExpAreaValues,
        s \in StreetValues, n \in NameValues }

EmptyRecord == [k \in Keys |-> Str(<<>>)]

\* DataPresent = FALSE: the response has no Data (missing, None or {})
Responses ==
    { [Data |-> d, DataPresent |-> TRUE, Success |-> TRUE] : d \in Records }
    \cup { [Data |-> EmptyRecord, DataPresent |-> FALSE, Success |-> FALSE] }

Init ==
    /\ store \in Stores
    /\ response \in Responses
    /\ given = response
    /\ result = response.Data
    /\ ret = response
    /\ pc = "idle"
    /\ query = NoQuery
    /\ current = None
    /\ level = 0
    /\ chain = EmptyChain
    /\ lookups = <<>>
    /\ pass = 1
    /\ failed = FALSE
    /\ excepted = FALSE
    /\ escaped = FALSE
    /\ TextUnused
    /\ ConcUnused

(***************************************************************************)
(* The call, one action per stretch of code between two store lookups.     *)
(***************************************************************************)
\* except Exception (complete_address): every exception is caught
complete_address_catches(raised) == TRUE

\* mutant: result = data, the writes to result reach the caller's record
CallerAfterWriteAliased(resp, res) == [resp EXCEPT !.Data = res]

\* result = data.copy(): writes to result leave the caller's record alone
CallerAfterWrite(resp, res) == resp

\* result = response.copy(); result['Data'] = completed_data
Envelope(resp, completed_data) == [resp EXCEPT !.Data = completed_data]

\* pc of a pending lookup
PcOf(q) ==
    IF q.kind = "name" THEN "find_region_by_name"
    ELSE IF q.kind = "id" THEN "find_region_by_id"
    ELSE "find_parent_by_type_and_id"

\* mutant: the start field that was not found is cleared
OnStartNotFoundCleared(res, start_field) ==
    IF start_field \in HierarchyFields
    THEN [res EXCEPT ![start_field] = Str(<<>>)]
    ELSE res

\* the start region was not found: return result
OnStartNotFound(res, start_field) == res

\* complete_address returns res (raised: the try block raised), and
\* complete_extract_response wraps it
Return(res, raised) ==
    /\ result' = res
    /\ excepted' = (raised /\ complete_address_catches(raised))
    /\ escaped' = (raised /\ ~complete_address_catches(raised))
    /\ response' = CallerAfterWrite(response, res)
    /\ ret' = Envelope(response', res)
    /\ pc' = "done"
    /\ query' = NoQuery

\* the walk from the loop head: the next parent lookup, or the four field
\* updates and the return
Walk(cur, lvl, ch) ==
    LET w == WalkStep(cur, lvl, ch) IN
    /\ current' = cur
    /\ level' = lvl
    /\ chain' = w.chain
    /\ IF w.more
       THEN /\ query' = w.query
            /\ pc' = PcOf(w.query)
            /\ UNCHANGED <<result, ret, response, excepted, escaped>>
       ELSE Return(UpdateFrom(result, 1, w.chain).res,
                   UpdateFrom(result, 1, w.chain).raised)

\* complete_extract_response up to the first store lookup
CompleteExtractResponse ==
    /\ pc = "idle"
    /\ UNCHANGED <<store, given, pass, failed, lookups, current, level, chain>>
    /\ UNCHANGED <<textVars, concVars>>
    /\ IF ~response.DataPresent
       THEN /\ ret' = response
            /\ pc' = "done"
            /\ UNCHANGED <<response, result, query, excepted, escaped>>
       ELSE LET s == SelectStart(response.Data) IN
            IF s.raised THEN Return(response.Data, TRUE)
            ELSE IF ~s.found THEN Return(response.Data, FALSE)
            ELSE IF ~NameQueryIssued(s.value)
            THEN Return(OnStartNotFound(response.Data, s.field), FALSE)
            ELSE /\ result' = response.Data
                 /\ query' = [kind |-> "name", name |-> s.value,
                              type |-> s.type, id |-> 0]
                 /\ pc' = "find_region_by_name"
                 /\ UNCHANGED <<response, ret, excepted, escaped>>

Logged(q, raised, row) ==
    Append(lookups, [query |-> q, raised |-> raised, found |-> row # None])

\* the name lookup returns; get_parent_chain starts
FindRegionByName ==
    /\ pc = "find_region_by_name"
    /\ \E raised \in BOOLEAN :
        LET row == find_region_by_name(store, raised, query.name, query.type) IN
        /\ lookups' = Logged(query, raised, row)
        /\ failed' = (failed \/ raised)
        /\ IF row = None
           THEN /\ Return(OnStartNotFound(result, SelectStart(result).field), FALSE)
                /\ UNCHANGED <<current, level, chain>>
           ELSE Walk(row, 0, EmptyChain)
    /\ UNCHANGED <<store, given, pass, textVars, concVars>>

\* a typed parent lookup returns; level += 1 and the loop goes on
FindParentByTypeAndId ==
    /\ pc = "find_parent_by_type_and_id"
    /\ \E raised \in BOOLEAN :
        LET row == find_parent_by_type_and_id(store, raised, query.type, query.id) IN
        /\ lookups' = Logged(query, raised, row)
        /\ failed' = (failed \/ raised)
        /\ Walk(row, level + 1, chain)
    /\ UNCHANGED <<store, given, pass, textVars, concVars>>

\* a parent lookup by id alone returns; level += 1 and the loop goes on
FindRegionById ==
    /\ pc = "find_region_by_id"
    /\ \E raised \in BOOLEAN :
        LET row == find_region_by_id(store, raised, query.id) IN
        /\ lookups' = Logged(query, raised, row)
        /\ failed' = (failed \/ raised)
        /\ Walk(row, level + 1, chain)
    /\ UNCHANGED <<store, given, pass, textVars, concVars>>

\* the caller passes the returned response to a further call
NextPass ==
    /\ pc = "done"
    /\ pass < MaxPasses
    /\ ~escaped
    /\ response' = ret
    /\ given' = ret
    /\ result' = ret.Data
    /\ pc' = "idle"
    /\ pass' = pass + 1
    /\ lookups' = <<>>
    /\ current' = None
    /\ level' = 0
    /\ chain' = EmptyChain
    /\ excepted' = FALSE
    /\ UNCHANGED <<store, ret, query, failed, escaped, textVars, concVars>>

Next ==
    \/ CompleteExtractResponse
    \/ FindRegionByName
    \/ FindParentByTypeAndId
    \/ FindRegionById
    \/ NextPass

Spec == Init /\ [][Next]_vars

(***************************************************************************)
(* Properties.                                                             *)
(***************************************************************************)
\* complete has returned a record for a response that had one
Returned == pc = "done" /\ given.DataPresent

\* some store lookup of the running call raised
SomeLookupRaised == \E i \in DOMAIN lookups : lookups[i].raised

\* every store lookup of the running call raised
EveryLookupRaised == \A i \in DOMAIN lookups : lookups[i].raised

\* a live row of the table has exactly this name and type
HasExactMatch(st, n, t) ==
    \E r \in st : r.region_name = n /\ r.region_type = t /\ r.is_deleted = 0

\* no province row of the table has a parent_id
ProvinceTop(st) ==
    \A r \in st : r.region_type = REGION_TYPE_PROVINCE => r.parent_id = 0

\* the value is a string that is not blank
NonBlankStr(v) == v.k = "str" /\ strip(v.s) # <<>>

\* C1: complete never raises to its caller, and whenever a step inside it
\* fails with an exception (here: a later field that is not a string, after an
\* earlier field was filled or replaced) the returned record equals the input.
C1_FailureReturnsInput ==
    /\ ~escaped
    /\ (Returned /\ excepted) => ret.Data = given.Data

\* C2: if any store lookup issued during complete raises, whatever its
\* position in the walk, complete returns the record it was given.
C2_LookupFailurePassThrough ==
    (Returned /\ SomeLookupRaised) => ret.Data = given.Data

\* C3: if every store lookup raises, complete returns a record equal to its
\* input and does not raise.
C3_StoreUnavailable ==
    (Returned /\ EveryLookupRaised) => (ret.Data = given.Data /\ ~escaped)

\* the start lookup raised although the table has the region and a field above
\* it is empty: complete had something to fill
C3_Witness ==
    /\ Returned
    /\ Len(lookups) = 1
    /\ lookups[1].raised
    /\ HasExactMatch(store, strip(lookups[1].query.name), lookups[1].query.type)
    /\ lookups[1].query.type = REGION_TYPE_STREET
    /\ given.Data.ExpAreaName = Str(<<>>)
    /\ ret.Data = given.Data

\* C4 as stated: for every record and every table, a second complete on the
\* result of the first changes nothing (no lookup raising in either call).
C4_Idempotent ==
    (Returned /\ pass >= 2 /\ ~failed) => ret.Data = given.Data

\* C4 amended: the same, for tables in which no province row has a parent_id.
C4_IdempotentProvinceTop ==
    (Returned /\ pass >= 2 /\ ~failed /\ ProvinceTop(store))
        => ret.Data = given.Data

\* the second call anchored, walked at least two parents and changed nothing
C4_Witness ==
    /\ Returned
    /\ pass = 2
    /\ ~failed
    /\ ProvinceTop(store)
    /\ Len(lookups) >= 3
    /\ lookups[1].found
    /\ ret.Data = given.Data

\* C5: when the chain has an entry for a field and the record's non-empty
\* value differs from the entry's region_name but equals its non-empty
\* alias_name (both stripped), complete leaves that field as it was given.
C5_AliasKept ==
    Returned =>
        \A f \in HierarchyFields :
            ( /\ chain[f].present
              /\ NonBlankStr(given.Data[f])
              /\ strip(given.Data[f].s) # strip(chain[f].region_name)
              /\ strip(chain[f].alias_name) # <<>>
              /\ strip(given.Data[f].s) = strip(chain[f].alias_name) )
            => ret.Data[f] = given.Data[f]

\* a city given by its alias below an anchor that resolved it, while another
\* field of the same call was filled
C5_Witness ==
    /\ Returned
    /\ pass = 1
    /\ chain["CityName"].present
    /\ given.Data.CityName = Str(<<"K">>)
    /\ chain["CityName"].region_name = <<"C">>
    /\ ret.Data.CityName = Str(<<"K">>)
    /\ ret.Data # given.Data

\* no hierarchy field holds a value of another type than a string (or None)
StringFields(d) == \A f \in HierarchyFields : d[f].k \in {"str", "none"}

\* the value equals one of the entry's two names, all stripped
HoldsNameOrAlias(v, info) ==
    /\ v.k = "str"
    /\ \/ strip(v.s) = strip(info.region_name)
       \/ strip(info.alias_name) # <<>> /\ strip(v.s) = strip(info.alias_name)

\* C6: in a record of strings, a field whose non-empty value equals neither
\* the region_name nor the alias_name of its chain entry is replaced by the
\* region_name; so after a resolved complete every field with a chain entry
\* holds (stripped) the entry's region_name or its alias_name.
C6_StoreWins ==
    (Returned /\ StringFields(given.Data)) =>
        \A f \in HierarchyFields :
            chain[f].present =>
                /\ ( NonBlankStr(given.Data[f])
                     /\ ~HoldsNameOrAlias(given.Data[f], chain[f]) )
                   => ret.Data[f] = Str(chain[f].region_name)
                /\ HoldsNameOrAlias(ret.Data[f], chain[f])

\* a street anchors the call and the city given as "Z" is replaced by "C"
C6_Witness ==
    /\ Returned
    /\ lookups # <<>>
    /\ lookups[1].query.type = REGION_TYPE_STREET
    /\ given.Data.CityName = Str(<<"Z">>)
    /\ chain["CityName"].present
    /\ ret.Data.CityName = Str(<<"C">>)

\* the value is empty: '' or None
IsEmpty(v) == v = Str(<<>>) \/ v = NoneVal

\* the live row with this id, None if there is none
RowById(st, i) ==
    IF \E r \in st : r.id = i /\ r.is_deleted = 0
    THEN CHOOSE r \in st : r.id = i /\ r.is_deleted = 0
    ELSE None

\* the live street row of this name, None if there is none
StreetRow(st, n) ==
    IF HasExactMatch(st, n, REGION_TYPE_STREET)
    THEN CHOOSE r \in st :
             r.region_name = n /\ r.region_type = REGION_TYPE_STREET /\ r.is_deleted = 0
    ELSE None

DistrictOf(st, n) == RowById(st, StreetRow(st, n).parent_id)
CityOf(st, n) == RowById(st, DistrictOf(st, n).parent_id)
ProvinceOf(st, n) == RowById(st, CityOf(st, n).parent_id)

\* the street of this name has a district, a city and a province above it
FullChain(st, n) ==
    /\ StreetRow(st, n) # None
    /\ DistrictOf(st, n).region_type = REGION_TYPE_EXP_AREA
    /\ CityOf(st, n).region_type = REGION_TYPE_CITY
    /\ ProvinceOf(st, n).region_type = REGION_TYPE_PROVINCE

\* the case of C7: a street that resolves with its three ancestors (no lookup
\* raising), below three empty fields
C7_Case ==
    /\ Returned
    /\ ~SomeLookupRaised
    /\ NonBlankStr(given.Data.StreetName)
    /\ FullChain(store, strip(given.Data.StreetName.s))
    /\ IsEmpty(given.Data.ProvinceName)
    /\ IsEmpty(given.Data.CityName)
    /\ IsEmpty(given.Data.ExpAreaName)

\* the three fields above the street hold the ancestors' region_name
C7_AncestorsFilled ==
    LET n == strip(given.Data.StreetName.s) IN
    /\ ret.Data.ExpAreaName = Str(DistrictOf(store, n).region_name)
    /\ ret.Data.CityName = Str(CityOf(store, n).region_name)
    /\ ret.Data.ProvinceName = Str(ProvinceOf(store, n).region_name)
    /\ \A f \in HierarchyFields : NonBlankStr(ret.Data[f])

\* C7 as stated: all four fields are non-empty and equal the region_name of
\* the street and of its three ancestors.
C7_EmptyFieldCompletion ==
    C7_Case =>
        /\ C7_AncestorsFilled
        /\ ret.Data.StreetName =
               Str(StreetRow(store, strip(given.Data.StreetName.s)).region_name)

\* C7 amended: the three fields above the street are filled with the
\* ancestors' region_name, and StreetName keeps the value it was given, which
\* is the street's region_name up to surrounding whitespace.
C7_EmptyFieldCompletionKeepsStreet ==
    C7_Case =>
        /\ C7_AncestorsFilled
        /\ ret.Data.StreetName = given.Data.StreetName
        /\ strip(ret.Data.StreetName.s) =
               StreetRow(store, strip(given.Data.StreetName.s)).region_name

\* the street " S" below three empty fields, completed to P / C / D / " S"
C7_Witness ==
    /\ C7_Case
    /\ given.Data.StreetName = Str(<<" ", "S">>)
    /\ ret.Data.ProvinceName = Str(<<"P">>)
    /\ ret.Data.CityName = Str(<<"C">>)
    /\ ret.Data.ExpAreaName = Str(<<"D">>)
    /\ Len(lookups) = 4

\* the value is not empty after stripping whitespace
NonBlank(v) == v.k = "int" \/ NonBlankStr(v)

\* the first field, street first, whose value is not blank
AnchorField(d) ==
    IF NonBlank(d.StreetName) THEN "StreetName"
    ELSE IF NonBlank(d.ExpAreaName) THEN "ExpAreaName"
    ELSE IF NonBlank(d.CityName) THEN "CityName"
    ELSE IF NonBlank(d.ProvinceName) THEN "ProvinceName"
    ELSE "none"

\* C8: the only lookup by name a call issues is its first lookup, for the
\* value and the region type of the first field, in the order StreetName,
\* ExpAreaName, CityName, ProvinceName, that is not blank; a record of
\* strings with such a field gets that lookup; and with four blank fields
\* the record is returned unchanged without any lookup.
C8_StartSelection ==
    given.DataPresent =>
        LET a == AnchorField(given.Data) IN
        /\ \A i \in DOMAIN lookups : (lookups[i].query.kind = "name") <=> (i = 1)
        /\ lookups # <<>> =>
               /\ a \in HierarchyFields
               /\ NonBlankStr(given.Data[a])
               /\ lookups[1].query.name = given.Data[a].s
               /\ lookups[1].query.type = region_type_map[a]
        /\ (pc = "done" /\ a \in HierarchyFields /\ NonBlankStr(given.Data[a]))
               => lookups # <<>>
        /\ (pc = "done" /\ a = "none")
               => (lookups = <<>> /\ ret.Data = given.Data)

\* a blank street is passed over and the district anchors the call although
\* the city and the province are given too
C8_Witness ==
    /\ Returned
    /\ given.Data.StreetName = Str(<<" ">>)
    /\ given.Data.ExpAreaName = Str(<<"D">>)
    /\ given.Data.CityName = Str(<<"C">>)
    /\ given.Data.ProvinceName = Str(<<"P">>)
    /\ Len(lookups) >= 2
    /\ lookups[1].query.name = <<"D">>
    /\ lookups[1].query.type = REGION_TYPE_EXP_AREA

\* what follows when the start value v of type t has no match: the record
\* comes back unchanged and the lookup by name stays the only one
C9_Unchanged ==
    /\ Len(lookups) <= 1
    /\ pc \in {"idle", "find_region_by_name", "done"}
    /\ pc = "done" => (Len(lookups) = 1 /\ ret.Data = given.Data)

\* C9 as stated: if the start field's value has no exact (region_name,
\* region_type) match, complete returns the record unchanged and issues no
\* further lookup.
C9_UnresolvableStart ==
    LET a == AnchorField(given.Data) IN
    ( /\ given.DataPresent
      /\ a \in HierarchyFields
      /\ NonBlankStr(given.Data[a])
      /\ ~HasExactMatch(store, given.Data[a].s, region_type_map[a]) )
    => C9_Unchanged

\* C9 amended: the same, for a start value that has no exact match after
\* its surrounding whitespace is stripped (among the rows not deleted).
C9_UnresolvableStrippedStart ==
    LET a == AnchorField(given.Data) IN
    ( /\ given.DataPresent
      /\ a \in HierarchyFields
      /\ NonBlankStr(given.Data[a])
      /\ ~HasExactMatch(store, strip(given.Data[a].s), region_type_map[a]) )
    => C9_Unchanged

\* the district "Z" is not in the table, the lookup did not raise, and the
\* city "C" below it, which would resolve, is not tried
C9_Witness ==
    /\ Returned
    /\ given.Data.StreetName = Str(<<>>)
    /\ given.Data.ExpAreaName = Str(<<"Z">>)
    /\ given.Data.CityName = Str(<<"C">>)
    /\ IsEmpty(given.Data.ProvinceName)
    /\ HasExactMatch(store, <<"C">>, REGION_TYPE_CITY)
    /\ Len(lookups) = 1
    /\ ~lookups[1].raised
    /\ ret.Data = given.Data

\* C10: the returned record has the input's Address, Mobile and Name, the
\* returned response the input's other members, and the caller's response
\* and record are never written.
C10_Frame ==
    /\ response = given
    /\ pc = "done" =>
           /\ \A k \in OtherKeys : ret.Data[k] = given.Data[k]
           /\ ret.Success = given.Success
           /\ ret.DataPresent = given.DataPresent

\* a call that changed a hierarchy field of a record with a name
C10_Witness ==
    /\ Returned
    /\ ret.Data # given.Data
    /\ given.Data.Name = Str(<<"n">>)
    /\ response = given

\* the call is at a position whose step is defined: at its start, at a
\* pending store lookup (whose action has no other guard), or returned
CallCanStep ==
    /\ pc \in {"idle", "find_region_by_name", "find_parent_by_type_and_id",
               "find_region_by_id", "done"}
    /\ pc \notin {"idle", "done"} => (query # NoQuery /\ pc = PcOf(query))

\* C18: whatever the table holds (a province naming itself as parent, a
\* cycle of parent_id, a parent of any level), the parent walk runs at most
\* max_levels = 4 iterations and a call issues at most 5 store lookups; the
\* call terminates: it is never stuck, and every step after the first answers
\* one more of these lookups.
C18_BoundedWalk ==
    /\ [](level <= max_levels /\ Len(lookups) <= max_levels + 1)
    /\ []CallCanStep
    /\ [][pc \notin {"idle", "done"} => Len(lookups') = Len(lookups) + 1]_vars

\* a province that names itself as parent: the lookup by name and four
\* lookups by id, each finding the same row again, and the call returns
C18_Witness ==
    /\ Returned
    /\ \E r \in store : r.region_type = REGION_TYPE_PROVINCE /\ r.parent_id = r.id
    /\ given.Data.ProvinceName = Str(<<"P">>)
    /\ level = max_levels
    /\ Len(lookups) = max_levels + 1
    /\ \A i \in 2..Len(lookups) :
           lookups[i].query.kind = "id" /\ lookups[i].found

\* the last store lookup the running call got answered
LastLookup == lookups[Len(lookups)]

\* the levels that have a level above them
TypedLevels == {REGION_TYPE_STREET, REGION_TYPE_EXP_AREA, REGION_TYPE_CITY}

\* the level exactly one above: district for street, city for district,
\* province for city
LevelAbove(t) ==
    CASE t = REGION_TYPE_STREET -> REGION_TYPE_EXP_AREA
      [] t = REGION_TYPE_EXP_AREA -> REGION_TYPE_CITY
      [] t = REGION_TYPE_CITY -> REGION_TYPE_PROVINCE
      [] OTHER -> 0

\* the fields of level t and of the levels above it
FieldsFrom(t) == {f \in HierarchyFields : region_type_map[f] <= t}

lower_char(c) ==
    CASE c = "P" -> "p"
      [] c = "C" -> "c"
      [] c = "K" -> "k"
      [] c = "D" -> "d"
      [] c = "E" -> "e"
      [] c = "S" -> "s"
      [] c = "T" -> "t"
      [] c = "Z" -> "z"
      [] OTHER -> c

\* the two names are equal after stripping and lower-casing both
EqualModuloCase(name1, name2) ==
    [i \in DOMAIN strip(name1) |-> lower_char(strip(name1)[i])]
        = [i \in DOMAIN strip(name2) |-> lower_char(strip(name2)[i])]

\* C20 as stated: a non-empty value that differs from the chain entry's
\* region_name (or alias_name) only in letter case and surrounding
\* whitespace is kept as it was given.
C20_NormalizedComparison ==
    Returned =>
        \A f \in HierarchyFields :
            ( /\ chain[f].present
              /\ NonBlankStr(given.Data[f])
              /\ \/ EqualModuloCase(given.Data[f].s, chain[f].region_name)
                 \/ /\ strip(chain[f].alias_name) # <<>>
                    /\ EqualModuloCase(given.Data[f].s, chain[f].alias_name) )
            => ret.Data[f] = given.Data[f]


\* the record after the four updates made in the given order
RECURSIVE UpdatedInOrder(_, _, _, _)
UpdatedInOrder(res, order, i, parent_chain) ==
    IF i > Len(order) THEN res
    ELSE UpdatedInOrder(update_field_if_needed(res, order[i], parent_chain).res,
                        order, i + 1, parent_chain)

FieldsBelow(t) == HierarchyFields \ FieldsFrom(t)

\* C28: when no province row has a parent_id, the chain of a call holds
\* entries for the start level and the levels above it only, and every field
\* more specific than the start field is empty (after stripping) as given and
\* is returned as given.
C28_UpwardOnly ==
    (ProvinceTop(store) /\ given.DataPresent /\ SelectStart(given.Data).found) =>
        LET start == SelectStart(given.Data) IN
        /\ \A f \in FieldsBelow(start.type) :
               /\ ~chain[f].present
               /\ ~NonBlank(given.Data[f])
               /\ result[f] = given.Data[f]
        /\ pc = "done" =>
               \A f \in FieldsBelow(start.type) : ret.Data[f] = given.Data[f]

\* from the district D, with a blank street: city and province are filled
\* and the street is returned as given
C28_Witness ==
    /\ Returned
    /\ ProvinceTop(store)
    /\ SelectStart(given.Data).field = "ExpAreaName"
    /\ given.Data.StreetName = Str(<<" ">>)
    /\ ret.Data.StreetName = Str(<<" ">>)
    /\ chain["ExpAreaName"].present
    /\ given.Data.CityName = Str(<<>>)
    /\ ret.Data.CityName = Str(<<"C">>)
    /\ ret.Data.ProvinceName = Str(<<"P">>)

(***************************************************************************)
(* Text.  A text is a sequence of characters; a Chinese character is       *)
(* written as its pinyin ("sheng" for the province suffix, "shi" for the   *)
(* city suffix, "qu" and "xian" for the district suffixes, "jie" "dao",    *)
(* "zhen" and "xiang" for the street suffixes), a digit or a Latin letter  *)
(* as itself.                                                              *)
(***************************************************************************)
\* longest generated part of a parser input
ParserMaxLen == 4

\* s.startswith(p)
StartsWith(s, p) == Len(p) <= Len(s) /\ SubSeq(s, 1, Len(p)) = p

\* s[n:]
Drop(s, n) == SubSeq(s, n + 1, Len(s))

\* p in s
Contains(s, p) == \E i \in 0..(Len(s) - Len(p)) : StartsWith(Drop(s, i), p)

\* re.match of ^([^excluded]+(?:suffixes[1]|suffixes[2]|...)) on s: the
\* matched prefix, <<>> when there is no match.  The run is greedy, so the
\* longest run that a suffix follows wins, and the alternatives are tried in
\* their order.
re_match(pattern, s) ==
    LET Follows(k, j) == StartsWith(Drop(s, k), pattern.suffixes[j])
        runs == {k \in 1..Len(s) :
                    /\ \A i \in 1..k : s[i] \notin pattern.excluded
                    /\ \E j \in DOMAIN pattern.suffixes : Follows(k, j)}
        run == CHOOSE k \in runs : \A o \in runs : o <= k
        alt == CHOOSE j \in DOMAIN pattern.suffixes :
                   Follows(run, j) /\ \A o \in 1..(j - 1) : ~Follows(run, o)
    IN IF runs = {} THEN <<>>
       ELSE SubSeq(s, 1, run + Len(pattern.suffixes[alt]))

DIRECT_CITIES ==
    << [full_name |-> <<"bei", "jing", "shi">>, short_name |-> <<"bei", "jing">>],
       [full_name |-> <<"shang", "hai", "shi">>, short_name |-> <<"shang", "hai">>],
       [full_name |-> <<"tian1", "jin", "shi">>, short_name |-> <<"tian1", "jin">>],
       [full_name |-> <<"chong", "qing", "shi">>, short_name |-> <<"chong", "qing">>] >>

PROVINCE_PATTERN ==
    [excluded |-> {"sheng", "shi", "qu", "xian"},
     suffixes |-> << <<"sheng">>, <<"zi", "zhi", "qu">>,
                     <<"te", "bie", "xing", "zheng", "qu">> >>]

CITY_PATTERN ==
    [excluded |-> {"sheng", "shi", "qu", "xian"}, suffixes |-> << <<"shi">> >>]

DISTRICT_PATTERN ==
    [excluded |-> {"sheng", "shi", "qu", "xian", "jie", "dao", "zhen", "xiang"},
     suffixes |-> << <<"qu">>, <<"xian">> >>]

STREET_PATTERN ==
    [excluded |-> {"sheng", "shi", "qu", "xian", "jie", "dao", "zhen", "xiang"},
     suffixes |-> << <<"jie", "dao">>, <<"zhen">>, <<"xiang">> >>]

(***************************************************************************)
(* AddressParser.parse_chinese_address.                                    *)
(***************************************************************************)
EmptyParse ==
    [province |-> <<>>, city |-> <<>>, district |-> <<>>, street |-> <<>>,
     address |-> <<>>]

\* the loop over DIRECT_CITIES from the i-th entry on: the name the text
\* starts with (full name, or short name + "shi"), <<>> if none
RECURSIVE DirectCityFrom(_, _)
DirectCityFrom(remaining_text, i) ==
    IF i > Len(DIRECT_CITIES) THEN <<>>
    ELSE IF StartsWith(remaining_text, DIRECT_CITIES[i].full_name)
    THEN DIRECT_CITIES[i].full_name
    ELSE IF StartsWith(remaining_text, DIRECT_CITIES[i].short_name \o <<"shi">>)
    THEN DIRECT_CITIES[i].short_name \o <<"shi">>
    ELSE DirectCityFrom(remaining_text, i + 1)

\* mutant: the rule for the municipalities is missing
MatchNoDirectCity(remaining_text) == <<>>

MatchDirectCity(remaining_text) == DirectCityFrom(remaining_text, 1)

\* mutant: the matched level is not cut off the remaining text
AfterWithoutSlice(remaining_text, matched) == strip(remaining_text)

\* remaining_text after a level: remaining_text[len(matched):].strip() when
\* the level matched, unchanged when it did not
After(remaining_text, matched) ==
    IF matched = <<>> THEN remaining_text
    ELSE strip(Drop(remaining_text, Len(matched)))

\* mutant: a level that does not match ends the parse, the rest is the address
parse_stopping_at_missing_level(address_text) ==
    LET r0 == strip(address_text)
        province == IF MatchDirectCity(r0) # <<>> THEN MatchDirectCity(r0)
                    ELSE re_match(PROVINCE_PATTERN, r0)
        r1 == After(r0, province)
        city == IF province = <<>> THEN <<>> ELSE re_match(CITY_PATTERN, r1)
        r2 == After(r1, city)
        district == IF city = <<>> THEN <<>> ELSE re_match(DISTRICT_PATTERN, r2)
        r3 == After(r2, district)
        street == IF district = <<>> THEN <<>> ELSE re_match(STREET_PATTERN, r3)
    IN IF address_text = <<>> THEN EmptyParse
       ELSE [province |-> province, city |-> city, district |-> district,
             street |-> street, address |-> strip(After(r3, street))]

parse_chinese_address(address_text) ==
    LET r0 == strip(address_text)
        province == IF MatchDirectCity(r0) # <<>> THEN MatchDirectCity(r0)
                    ELSE re_match(PROVINCE_PATTERN, r0)
        r1 == After(r0, province)
        city == re_match(CITY_PATTERN, r1)
        r2 == After(r1, city)
        district == re_match(DISTRICT_PATTERN, r2)
        r3 == After(r2, district)
        street == re_match(STREET_PATTERN, r3)
    IN IF address_text = <<>> THEN EmptyParse
       ELSE [province |-> province, city |-> city, district |-> district,
             street |-> street, address |-> strip(After(r3, street))]

(***************************************************************************)
(* The parser on its own: an address text is drawn and parsed.             *)
(***************************************************************************)
\* the characters of the generated texts: the level suffixes, an ordinary
\* character and the blank
ParserAlphabet == {"sheng", "shi", "qu", "jie", "dao", "zhen", "a", " "}

\* what a generated text starts with: nothing, a municipality, or a
\* municipality's short name without "shi"
ParserPrefixes ==
    { <<>>, <<"bei", "jing", "shi">>, <<"chong", "qing", "shi">>, <<"bei", "jing">> }

\* 北京市朝阳区建国路1号
BeijingExample ==
    <<"bei", "jing", "shi", "chao", "yang", "qu", "jian", "guo", "lu", "1", "hao">>

\* 广东省深圳市龙岗区坂田街道长坑路西2巷2号202
GuangdongExample ==
    <<"guang", "dong", "sheng", "shen", "zhen4", "shi", "long", "gang", "qu",
      "ban", "tian2", "jie", "dao", "chang", "keng", "lu", "xi", "2", "xiang4",
      "2", "hao", "2", "0", "2">>

\* further texts: no province, a county and a township, no city, an autonomous
\* region, a special administrative region, the other two municipalities
ParserExamples ==
    { BeijingExample, GuangdongExample,
      Drop(GuangdongExample, 3),
      <<"a", "xian", "b", "xiang", "c">>,
      <<"a", "sheng", "b", "qu", "c", "zhen", "d">>,
      <<"guang", "xi", "zi", "zhi", "qu", "a", "shi", "b">>,
      <<"a", "te", "bie", "xing", "zheng", "qu", "b", "qu">>,
      <<"shang", "hai", "shi", "a", "qu", "b">>,
      <<" ", "tian1", "jin", "shi", " ", "a", "xian", "b", "zhen">> }

ParserTexts ==
    { p \o s : p \in ParserPrefixes,
               s \in UNION { [1..n -> ParserAlphabet] : n \in 0..ParserMaxLen } }
    \cup ParserExamples

\* the completer is not running
CompleterUnused ==
    /\ store = {}
    /\ response = [Data |-> EmptyRecord, DataPresent |-> FALSE, Success |-> FALSE]
    /\ given = response
    /\ result = response.Data
    /\ ret = response
    /\ pc = "unused"
    /\ query = NoQuery
    /\ current = None
    /\ level = 0
    /\ chain = EmptyChain
    /\ lookups = <<>>
    /\ pass = 1
    /\ failed = FALSE
    /\ excepted = FALSE
    /\ escaped = FALSE

ParserInit ==
    /\ input \in ParserTexts
    /\ output = EmptyParse
    /\ stage = "text"
    /\ CompleterUnused
    /\ ConcUnused

ParseChineseAddress ==
    /\ stage = "text"
    /\ output' = parse_chinese_address(input)
    /\ stage' = "parsed"
    /\ UNCHANGED <<input, completerVars, concVars>>

ParserNext == ParseChineseAddress

ParserSpec == ParserInit /\ [][ParserNext]_vars

(***************************************************************************)
(* Properties of the parser.                                               *)
(***************************************************************************)
\* the full names of the four municipalities
MunicipalityNames ==
    { <<"bei", "jing", "shi">>, <<"shang", "hai", "shi">>,
      <<"tian1", "jin", "shi">>, <<"chong", "qing", "shi">> }

\* the city, district and street patterns applied in turn to a text, and
\* what is left of it
LevelsBelowProvince(rest) ==
    LET c == re_match(CITY_PATTERN, rest)
        d == re_match(DISTRICT_PATTERN, After(rest, c))
        s == re_match(STREET_PATTERN, After(After(rest, c), d))
    IN [city |-> c, district |-> d, street |-> s,
        address |-> strip(After(After(After(rest, c), d), s))]

\* C15: for a text that begins with the full name of a municipality, the
\* province is that name, and city, district, street and address are what
\* the city, district and street patterns give on the text after the name
\* (the province pattern is not applied to it); the example parses to
\* 北京市 / no city / 朝阳区 / no street / 建国路1号.
C15_MunicipalityRule ==
    stage = "parsed" =>
        /\ \A m \in MunicipalityNames :
               StartsWith(input, m) =>
                   /\ output.province = m
                   /\ output.city = LevelsBelowProvince(strip(Drop(input, Len(m)))).city
                   /\ output.district =
                          LevelsBelowProvince(strip(Drop(input, Len(m)))).district
                   /\ output.street =
                          LevelsBelowProvince(strip(Drop(input, Len(m)))).street
                   /\ output.address =
                          LevelsBelowProvince(strip(Drop(input, Len(m)))).address
        /\ input = BeijingExample =>
               output = [province |-> <<"bei", "jing", "shi">>,
                         city |-> <<>>,
                         district |-> <<"chao", "yang", "qu">>,
                         street |-> <<>>,
                         address |-> <<"jian", "guo", "lu", "1", "hao">>]

\* a municipality followed by a text the province pattern matches: the
\* province is the municipality and that text is left to the later levels,
\* which here leave it to the address
C15_Witness ==
    /\ stage = "parsed"
    /\ StartsWith(input, <<"chong", "qing", "shi">>)
    /\ re_match(PROVINCE_PATTERN, Drop(input, 3)) = <<"a", "sheng">>
    /\ output.province = <<"chong", "qing", "shi">>
    /\ output.city = <<>>
    /\ output.address = Drop(input, 3)

\* the text without its blanks
RECURSIVE Squeeze(_)
Squeeze(s) ==
    IF s = <<>> THEN <<>>
    ELSE IF Head(s) = " " THEN Squeeze(Tail(s))
    ELSE <<Head(s)>> \o Squeeze(Tail(s))

\* C16: each field is what its pattern matches at the start of the text left
\* by the levels before it (province, city, district, street, in this
\* order), empty when the pattern does not match there, whether or not the
\* levels before it matched; the address is the trimmed rest; nothing of the
\* text is lost or reordered; and the examples parse as stated.
C16_OrderedCascade ==
    stage = "parsed" =>
        /\ (\A m \in MunicipalityNames : ~StartsWith(strip(input), m)) =>
               output.province = re_match(PROVINCE_PATTERN, strip(input))
        /\ output.city =
               LevelsBelowProvince(After(strip(input), output.province)).city
        /\ output.district =
               LevelsBelowProvince(After(strip(input), output.province)).district
        /\ output.street =
               LevelsBelowProvince(After(strip(input), output.province)).street
        /\ output.address =
               LevelsBelowProvince(After(strip(input), output.province)).address
        /\ Squeeze(output.province \o output.city \o output.district
                       \o output.street \o output.address) = Squeeze(input)
        /\ input = GuangdongExample =>
               output = [province |-> <<"guang", "dong", "sheng">>,
                         city |-> <<"shen", "zhen4", "shi">>,
                         district |-> <<"long", "gang", "qu">>,
                         street |-> <<"ban", "tian2", "jie", "dao">>,
                         address |-> <<"chang", "keng", "lu", "xi", "2", "xiang4",
                                       "2", "hao", "2", "0", "2">>]
        /\ input = Drop(GuangdongExample, 3) =>
               /\ output.province = <<>>
               /\ output.city = <<"shen", "zhen4", "shi">>
               /\ output.district = <<"long", "gang", "qu">>

\* a province, no city, and still a district, a street and an address
C16_Witness ==
    /\ stage = "parsed"
    /\ output.province = <<"a", "sheng">>
    /\ output.city = <<>>
    /\ output.district = <<"b", "qu">>
    /\ output.street = <<"c", "zhen">>
    /\ output.address = <<"d">>

\* the five fields of a parse, in the order of the levels
FieldsOf(parsed) ==
    <<parsed.province, parsed.city, parsed.district, parsed.street, parsed.address>>

\* rest is the fields from the i-th on, in their order, with nothing but
\* blanks before, between and after them
RECURSIVE SpelledBy(_, _, _)
SpelledBy(rest, fields, i) ==
    IF i > Len(fields) THEN strip(rest) = <<>>
    ELSE IF fields[i] = <<>> THEN SpelledBy(rest, fields, i + 1)
    ELSE /\ StartsWith(lstrip(rest), fields[i])
         /\ SpelledBy(Drop(lstrip(rest), Len(fields[i])), fields, i + 1)

\* C29: the input is the five fields of its parse in their order with only
\* whitespace before, between and after them: the concatenation of the fields
\* is the input without that whitespace, and every field that is not empty is
\* a contiguous part of the input that neither starts nor ends with a blank.
C29_ParserLossless ==
    stage = "parsed" =>
        /\ SpelledBy(input, FieldsOf(output), 1)
        /\ \A i \in 1..5 :
               FieldsOf(output)[i] # <<>> =>
                   /\ Contains(input, FieldsOf(output)[i])
                   /\ strip(FieldsOf(output)[i]) = FieldsOf(output)[i]
        /\ Squeeze(output.province \o output.city \o output.district
                   \o output.street \o output.address) = Squeeze(input)

\* a text with blanks at its start and between two levels, parsed into a
\* municipality, a county and a township
C29_Witness ==
    /\ stage = "parsed"
    /\ input # <<>>
    /\ input[1] = " "
    /\ output.province \in MunicipalityNames
    /\ output.city = <<>>
    /\ output.district # <<>>
    /\ output.street # <<>>
    /\ Len(output.province \o output.district \o output.street \o output.address)
           = Len(input) - 2

(***************************************************************************)
(* EntityExtractor.classify_entities.  An entity is [type, span, start,    *)
(* end]; a mapping config gives some of the output fields a category       *)
(* config [entity_types, patterns].                                        *)
(***************************************************************************)
\* longest generated entity list
ClassifierMaxEntities == 2

\* the categories in the order of the if-chain, each with its bucket
CategoryOrder ==
    << [key |-> "ProvinceName", bucket |-> "province"],
       [key |-> "CityName", bucket |-> "city"],
       [key |-> "ExpAreaName", bucket |-> "district"],
       [key |-> "StreetName", bucket |-> "street"],
       [key |-> "Address", bucket |-> "address"],
       [key |-> "Name", bucket |-> "person"] >>

\* the entity types are "loc" (地理位置) and "per" (人物)
DEFAULT_ENTITY_MAPPING ==
    [ProvinceName |-> [entity_types |-> {"loc"},
                       patterns |-> << <<"sheng">>, <<"zi", "zhi", "qu">>,
                                       <<"te", "bie", "xing", "zheng", "qu">> >>],
     CityName |-> [entity_types |-> {"loc"}, patterns |-> << <<"shi">> >>],
     ExpAreaName |-> [entity_types |-> {"loc"},
                      patterns |-> << <<"qu">>, <<"xian">> >>],
     StreetName |-> [entity_types |-> {"loc"},
                     patterns |-> << <<"jie", "dao">>, <<"zhen">>, <<"xiang">> >>],
     Address |-> [entity_types |-> {"loc"},
                  patterns |-> << <<"lu">>, <<"jie">>, <<"da", "dao">>, <<"xiang4">>,
                                  <<"hao">>, <<"long4">>, <<"li">> >>],
     Name |-> [entity_types |-> {"per"}, patterns |-> <<>>]]

\* mapping_config.get(key, {})
CategoryConfig(mapping_config, key) ==
    IF key \in DOMAIN mapping_config THEN mapping_config[key]
    ELSE [entity_types |-> {}, patterns |-> <<>>]

matches_category(entity_type, span, category_config) ==
    /\ entity_type \in category_config.entity_types
    /\ \/ category_config.patterns = <<>>
       \/ \E i \in DOMAIN category_config.patterns :
              Contains(span, category_config.patterns[i])

\* mutant: the continue after an append is missing
AppendsWithoutContinue(entity, mapping_config, i) ==
    matches_category(entity.type, entity.span,
                     CategoryConfig(mapping_config, CategoryOrder[i].key))

\* the i-th branch of the if-chain appends the entity: its category matches
\* and no branch before it did (each of those ends with continue)
Appends(entity, mapping_config, i) ==
    /\ matches_category(entity.type, entity.span,
                        CategoryConfig(mapping_config, CategoryOrder[i].key))
    /\ \A j \in 1..(i - 1) :
           ~matches_category(entity.type, entity.span,
                             CategoryConfig(mapping_config, CategoryOrder[j].key))

\* the buckets after the loop over entity_list
classify_entities(entity_list, mapping_config) ==
    [b \in {CategoryOrder[i].bucket : i \in DOMAIN CategoryOrder} |->
        LET i == CHOOSE i \in DOMAIN CategoryOrder : CategoryOrder[i].bucket = b
        IN SelectSeq(entity_list, LAMBDA e : Appends(e, mapping_config, i))]

(***************************************************************************)
(* The classifier on its own: an entity list and a mapping config are      *)
(* drawn and classified.                                                   *)
(***************************************************************************)
\* the default config; one whose province category has no patterns and
\* whose person category takes both types; one without a city category
\* whose person category takes what is left of both types; the empty one
ClassifierConfigs ==
    { DEFAULT_ENTITY_MAPPING,
      [DEFAULT_ENTITY_MAPPING EXCEPT
          !.ProvinceName = [entity_types |-> {"loc"}, patterns |-> <<>>],
          !.Name = [entity_types |-> {"loc", "per"}, patterns |-> <<>>]],
      [k \in {"ProvinceName", "ExpAreaName", "Address", "Name"} |->
          IF k = "Name" THEN [entity_types |-> {"loc", "per"}, patterns |-> <<>>]
          ELSE DEFAULT_ENTITY_MAPPING[k]],
      [k \in {} |-> [entity_types |-> {}, patterns |-> <<>>]] }

ClassifierEntities ==
    { [type |-> ty, span |-> sp, start |-> 0, end |-> Len(sp)] :
        ty \in {"loc", "per", "org"},
        sp \in { <<"a", "sheng">>, <<"a", "sheng", "b", "shi">>, <<"b", "qu">>,
                 <<"c", "lu", "1", "hao">>, <<"x", "y">> } }

ClassifierInit ==
    /\ input \in
           [entity_list : UNION { [1..n -> ClassifierEntities] :
                                      n \in 0..ClassifierMaxEntities },
            mapping_config : ClassifierConfigs]
    /\ output = <<>>
    /\ stage = "entities"
    /\ CompleterUnused
    /\ ConcUnused

ClassifyEntities ==
    /\ stage = "entities"
    /\ output' = classify_entities(input.entity_list, input.mapping_config)
    /\ stage' = "classified"
    /\ UNCHANGED <<input, completerVars, concVars>>

ClassifierNext == ClassifyEntities

ClassifierSpec == ClassifierInit /\ [][ClassifierNext]_vars

(***************************************************************************)
(* Properties of the classifier.                                           *)
(***************************************************************************)
\* the category's entity_types contain the entity's type and its patterns
\* are empty or one of them is contained in the span
Eligible(e, mapping_config, key) ==
    /\ key \in DOMAIN mapping_config
    /\ e.type \in mapping_config[key].entity_types
    /\ \/ mapping_config[key].patterns = <<>>
       \/ \E i \in DOMAIN mapping_config[key].patterns :
              Contains(e.span, mapping_config[key].patterns[i])

\* the bucket of the first category, in the fixed order, the entity is
\* eligible for; "none" if there is no such category
FirstBucket(e, mapping_config) ==
    IF Eligible(e, mapping_config, "ProvinceName") THEN "province"
    ELSE IF Eligible(e, mapping_config, "CityName") THEN "city"
    ELSE IF Eligible(e, mapping_config, "ExpAreaName") THEN "district"
    ELSE IF Eligible(e, mapping_config, "StreetName") THEN "street"
    ELSE IF Eligible(e, mapping_config, "Address") THEN "address"
    ELSE IF Eligible(e, mapping_config, "Name") THEN "person"
    ELSE "none"

\* C12: there are the six buckets, and each holds, in input order, exactly
\* the input entities whose first eligible category is its own; so an entity
\* is in at most one bucket, an entity eligible for no category is in none,
\* and no bucket holds an entity that is not in the input.
C12_ClassifierPrecedence ==
    stage = "classified" =>
        /\ DOMAIN output = {"province", "city", "district", "street", "address",
                            "person"}
        /\ \A b \in DOMAIN output :
               output[b] = SelectSeq(input.entity_list,
                               LAMBDA e : FirstBucket(e, input.mapping_config) = b)
        /\ \A b \in DOMAIN output : \A c \in DOMAIN output :
               \A i \in DOMAIN output[b] : \A j \in DOMAIN output[c] :
                   output[b][i] = output[c][j] => b = c

\* under the default config a location whose span holds a province and a
\* city pattern is in the province bucket only, and an entity of a type no
\* category names is in no bucket
C12_Witness ==
    /\ stage = "classified"
    /\ input.mapping_config = DEFAULT_ENTITY_MAPPING
    /\ Len(input.entity_list) = 2
    /\ input.entity_list[1].type = "loc"
    /\ input.entity_list[1].span = <<"a", "sheng", "b", "shi">>
    /\ input.entity_list[2].type = "org"
    /\ output.province = <<input.entity_list[1]>>
    /\ \A b \in DOMAIN output : b # "province" => output[b] = <<>>

(***************************************************************************)
(* TextPreprocessor._extract_components (QwenFlashModel has the same code  *)
(* with the constants written out).                                        *)
(***************************************************************************)
\* most blank-separated parts of a generated address
DecomposerMaxParts == 2

Digits == {"0", "1", "2", "3", "4", "5", "6", "7", "8", "9"}

\* the characters in [一-龥] that occur in the texts
Hanzi ==
    {"sheng", "shi", "qu", "xian", "zhen", "jie", "dao", "lu", "hao", "cun", "zu",
     "xiao", "da", "sha", "guang", "chang3", "yuan", "gong", "ye", "kai", "fa",
     "xin", "xiang4", "long4", "li", "zhuang", "dong4", "dan", "yuan2", "shi4",
     "ceng", "zi", "zhi", "te", "bie", "xing", "zheng", "dong", "shen", "zhen4",
     "long", "gang", "ban", "tian2", "chang", "keng", "xi", "bi", "gui", "feng",
     "huang2", "cheng", "zhang", "san", "huang"}

ADDRESS_KEYWORDS ==
    { <<"sheng">>, <<"shi">>, <<"qu">>, <<"xian">>, <<"zhen">>, <<"jie", "dao">>,
      <<"lu">>, <<"jie">>, <<"hao">>, <<"cun">>, <<"zu">>, <<"xiao", "qu">>,
      <<"da", "sha">>, <<"guang", "chang3">>, <<"yuan", "qu">>,
      <<"gong", "ye", "qu">>, <<"kai", "fa", "qu">>, <<"xin", "qu">>,
      <<"da", "dao">>, <<"xiang4">>, <<"long4">>, <<"li">>, <<"zhuang">>,
      <<"dong4">>, <<"dan", "yuan2">>, <<"shi4">>, <<"ceng">>,
      <<"zi", "zhi", "qu">>, <<"te", "bie", "xing", "zheng", "qu">> }

\* length of the match of the pattern at position i of the text, 0 if it
\* does not match there.  PHONE_PATTERN is 1[3-9]\d{9}.  FIXED_PHONE_PATTERN
\* is 0\d{2,3}-?\d{7,8}: the greedy quantifiers try 3 digits before 2, the
\* dash before no dash and 8 digits before 7.
MatchLenAt(pattern, text, i) ==
    LET DigitsAt(from, n) ==
            from + n - 1 <= Len(text) /\ \A j \in from..(from + n - 1) : text[j] \in Digits
        Fits(sh) ==
            /\ text[i] = "0"
            /\ DigitsAt(i + 1, sh[1])
            /\ sh[2] = 1 => (i + sh[1] + 1 <= Len(text) /\ text[i + sh[1] + 1] = "-")
            /\ DigitsAt(i + sh[1] + sh[2] + 1, sh[3])
        shapes == << <<3, 1, 8>>, <<3, 1, 7>>, <<3, 0, 8>>, <<3, 0, 7>>,
                     <<2, 1, 8>>, <<2, 1, 7>>, <<2, 0, 8>>, <<2, 0, 7>> >>
        first == CHOOSE n \in DOMAIN shapes :
                     Fits(shapes[n]) /\ \A m \in 1..(n - 1) : ~Fits(shapes[m])
    IN IF pattern = "PHONE_PATTERN"
       THEN IF text[i] = "1" /\ DigitsAt(i + 1, 10) /\ text[i + 1] \notin {"0", "1", "2"}
            THEN 11 ELSE 0
       ELSE IF \E n \in DOMAIN shapes : Fits(shapes[n])
            THEN 1 + shapes[first][1] + shapes[first][2] + shapes[first][3]
            ELSE 0

\* re.search(pattern, text): the leftmost match, start and end as in Python
re_search(pattern, text) ==
    LET starts == {i \in DOMAIN text : MatchLenAt(pattern, text, i) > 0}
        i == CHOOSE i \in starts : \A o \in starts : i <= o
    IN IF starts = {} THEN [found |-> FALSE, start |-> 0, end |-> 0]
       ELSE [found |-> TRUE, start |-> i - 1,
             end |-> i - 1 + MatchLenAt(pattern, text, i)]

\* str.split()
RECURSIVE split(_)
split(s) ==
    LET t == lstrip(s)
        n == CHOOSE n \in 1..(Len(t) + 1) :
                 /\ n = Len(t) + 1 \/ t[n] = " "
                 /\ \A m \in 1..(n - 1) : t[m] # " "
    IN IF t = <<>> THEN <<>>
       ELSE <<SubSeq(t, 1, n - 1)>> \o split(Drop(t, n - 1))

\* any(keyword in part for keyword in ADDRESS_KEYWORDS)
has_keyword(part) == \E k \in ADDRESS_KEYWORDS : Contains(part, k)

\* bool(re.search(r'\d', part))
has_number(part) == \E i \in DOMAIN part : part[i] \in Digits

\* re.match(CHINESE_NAME_PATTERN, part): two to four Chinese characters
is_chinese_name(part) ==
    Len(part) \in 2..4 /\ \A i \in DOMAIN part : part[i] \in Hanzi

\* mutant: a name ends nothing, the scan goes on after it
RECURSIVE CollectPastName(_, _, _, _)
CollectPastName(parts, i, address_parts, person_parts) ==
    IF i > Len(parts)
    THEN [address_parts |-> address_parts, person_parts |-> person_parts]
    ELSE IF is_chinese_name(parts[i]) /\ ~has_keyword(parts[i])
    THEN CollectPastName(parts, i + 1, address_parts, Append(person_parts, parts[i]))
    ELSE CollectPastName(parts, i + 1, Append(address_parts, parts[i]), person_parts)

\* mutant: the parts after the name are not taken over
RECURSIVE CollectNameOnly(_, _, _, _)
CollectNameOnly(parts, i, address_parts, person_parts) ==
    IF i > Len(parts)
    THEN [address_parts |-> address_parts, person_parts |-> person_parts]
    ELSE IF is_chinese_name(parts[i]) /\ ~has_keyword(parts[i])
    THEN [address_parts |-> address_parts,
          person_parts |-> Append(person_parts, parts[i])]
    ELSE IF has_keyword(parts[i]) \/ has_number(parts[i]) \/ address_parts # <<>>
    THEN CollectNameOnly(parts, i + 1, Append(address_parts, parts[i]), person_parts)
    ELSE CollectNameOnly(parts, i + 1, address_parts, Append(person_parts, parts[i]))

\* the while loop from parts[i] on (i counts from 1)
RECURSIVE CollectFrom(_, _, _, _)
CollectFrom(parts, i, address_parts, person_parts) ==
    IF i > Len(parts)
    THEN [address_parts |-> address_parts, person_parts |-> person_parts]
    ELSE IF is_chinese_name(parts[i]) /\ ~has_keyword(parts[i])
    THEN [address_parts |-> address_parts,
          person_parts |-> person_parts \o SubSeq(parts, i, Len(parts))]
    ELSE IF has_keyword(parts[i]) \/ has_number(parts[i]) \/ address_parts # <<>>
    THEN CollectFrom(parts, i + 1, Append(address_parts, parts[i]), person_parts)
    ELSE CollectFrom(parts, i + 1, address_parts, Append(person_parts, parts[i]))

\* the loop over the parts before address_start_idx: each is inserted at
\* position 0 of its list
RECURSIVE InsertBefore(_, _, _, _)
InsertBefore(parts, i, address_start_idx, lists) ==
    IF i >= address_start_idx THEN lists
    ELSE IF is_chinese_name(parts[i])
    THEN InsertBefore(parts, i + 1, address_start_idx,
                      [lists EXCEPT !.person_parts = <<parts[i]>> \o @])
    ELSE InsertBefore(parts, i + 1, address_start_idx,
                      [lists EXCEPT !.address_parts = <<parts[i]>> \o @])

\* re.search(re.escape(prev_part) + r'\s+' + re.escape(part), original_text)
SpacedIn(original_text, prev_part, part) ==
    \E i \in 0..Len(original_text) : \E n \in 1..Len(original_text) :
        /\ StartsWith(Drop(original_text, i), prev_part)
        /\ i + Len(prev_part) + n <= Len(original_text)
        /\ \A j \in 1..n : original_text[i + Len(prev_part) + j] = " "
        /\ StartsWith(Drop(original_text, i + Len(prev_part) + n), part)

\* address_text after the first n address parts
RECURSIVE JoinAddress(_, _, _)
JoinAddress(address_parts, n, original_text) ==
    IF n = 0 THEN <<>>
    ELSE IF n = 1 THEN address_parts[1]
    ELSE JoinAddress(address_parts, n - 1, original_text)
             \o (IF SpacedIn(original_text, address_parts[n - 1], address_parts[n])
                 THEN <<" ">> ELSE <<>>)
             \o address_parts[n]

\* " ".join(parts)
RECURSIVE JoinBlank(_)
JoinBlank(parts) ==
    IF parts = <<>> THEN <<>>
    ELSE IF Len(parts) = 1 THEN parts[1]
    ELSE parts[1] \o <<" ">> \o JoinBlank(Tail(parts))

\* step 2 of _extract_components: person_name and address from the text
\* before the phone
extract_parts(text_before_phone, original_text) ==
    LET parts == split(strip(text_before_phone))
        keyed == {i \in DOMAIN parts : has_keyword(parts[i]) \/ has_number(parts[i])}
        address_start_idx == CHOOSE i \in keyed : \A o \in keyed : i <= o
        IsAddress(p) == (has_number(p) /\ Len(p) > 2) \/ ~is_chinese_name(p)
        IsPerson(p) == ~IsAddress(p)
        lists == IF keyed = {}
                 THEN [address_parts |-> SelectSeq(parts, IsAddress),
                       person_parts |-> SelectSeq(parts, IsPerson)]
                 ELSE InsertBefore(parts, 1, address_start_idx,
                          CollectFrom(parts, address_start_idx, <<>>, <<>>))
    IN [person_name |-> JoinBlank(lists.person_parts),
        address |-> JoinAddress(lists.address_parts, Len(lists.address_parts),
                                original_text)]

\* what happens after the search of the mobile pattern: the fixed-line
\* pattern is searched in the else branch only
AlwaysFixedSearch(phone_match) == "fixed_phone"

AfterPhoneSearch(phone_match) ==
    IF phone_match.found THEN "split" ELSE "fixed_phone"

\* the result dictionary with the locals text_before_phone and the patterns
\* searched so far
NoComponents ==
    [person_name |-> <<>>, phone |-> <<>>, address |-> <<>>,
     text_before_phone |-> <<>>, searched |-> <<>>]

\* the result after the search of a pattern in the text
WithPhone(components, pattern, text) ==
    LET m == re_search(pattern, text)
    IN [components EXCEPT
           !.phone = IF m.found THEN SubSeq(text, m.start + 1, m.end) ELSE @,
           !.text_before_phone = IF m.found THEN SubSeq(text, 1, m.start) ELSE text,
           !.searched = Append(@, pattern)]

\* _extract_components(text)
extract_components(text) ==
    LET mobile == WithPhone(NoComponents, "PHONE_PATTERN", text)
        found == IF AfterPhoneSearch(re_search("PHONE_PATTERN", text)) = "split"
                 THEN mobile ELSE WithPhone(mobile, "FIXED_PHONE_PATTERN", text)
        parts == extract_parts(found.text_before_phone, text)
    IN [person_name |-> parts.person_name, phone |-> found.phone,
        address |-> parts.address]

\* Inputs: ADDRESS NAME PHONE and a text after the phone, each possibly
\* missing, one or two blanks apart
MobilePhone == <<"1", "8", "2", "7", "3", "7", "7", "8", "5", "7", "5">>

FixedPhone == <<"0", "7", "5", "5", "-", "1", "2", "3", "4", "5", "6", "7", "8">>

DecomposerParts ==
    { <<"ban", "tian2", "jie", "dao", "1", "hao">>,
      <<"long", "gang">>,
      <<"bi", "gui", "feng", "huang2", "cheng">>,
      <<"3", "dong4", "2", "0", "1">>,
      <<"guang", "dong", "sheng">> }

DecomposerInputs ==
    LET addresses == {<<>>, <<GuangdongExample>>,
                      << <<"ban", "tian2", "jie", "dao", "1", "hao">>, <<"long", "gang">>,
                         <<"guang", "dong", "sheng">> >>,
                      << <<"bi", "gui", "feng", "huang2", "cheng">>, <<"long", "gang">>,
                         <<"ban", "tian2", "jie", "dao", "1", "hao">> >>}
                       \cup UNION {[1..n -> DecomposerParts] : n \in 1..DecomposerMaxParts}
        names == {<<>>, <<"zhang", "san">>, <<"huang", "da", "da">>, <<"T", "o", "m">>}
        phones == {<<>>, MobilePhone, FixedPhone, FixedPhone \o <<" ">> \o MobilePhone}
        afters == {<<>>, <<"long", "gang">>,
                   <<"bi", "gui", "feng", "huang2", "cheng", " ",
                     "ban", "tian2", "jie", "dao", "1", "hao">>}
        Sep(a, sep, b) == IF a = <<>> \/ b = <<>> THEN a \o b ELSE a \o sep \o b
        Joined(parts, sep) ==
            LET RECURSIVE J(_)
                J(n) == IF n = 0 THEN <<>> ELSE Sep(J(n - 1), sep, parts[n])
            IN J(Len(parts))
    IN { i \in { [address |-> a, name |-> n, phone |-> ph, after |-> af,
                   text |-> Sep(Sep(Sep(Joined(a, sep), sep, n), sep, ph), sep, af)] :
                     a \in addresses, n \in names, ph \in phones,
                     sep \in {<<" ">>, <<" ", " ">>}, af \in afters } :
             i.phone # <<>> \/ i.after = <<>> }

DecomposerInit ==
    /\ input \in DecomposerInputs
    /\ output = NoComponents
    /\ stage = "text"
    /\ CompleterUnused
    /\ ConcUnused

\* phone_match = re.search(PHONE_PATTERN, text) and its if branch
SearchPhone ==
    /\ stage = "text"
    /\ output' = WithPhone(output, "PHONE_PATTERN", input.text)
    /\ stage' = AfterPhoneSearch(re_search("PHONE_PATTERN", input.text))
    /\ UNCHANGED <<input, completerVars, concVars>>

\* the else branch: fixed_phone_match = re.search(FIXED_PHONE_PATTERN, text)
SearchFixedPhone ==
    /\ stage = "fixed_phone"
    /\ output' = WithPhone(output, "FIXED_PHONE_PATTERN", input.text)
    /\ stage' = "split"
    /\ UNCHANGED <<input, completerVars, concVars>>

\* the rest of _extract_components, up to its return
ExtractParts ==
    /\ stage = "split"
    /\ LET found == extract_parts(output.text_before_phone, input.text)
       IN output' = [output EXCEPT !.person_name = found.person_name,
                                   !.address = found.address]
    /\ stage' = "extracted"
    /\ UNCHANGED <<input, completerVars, concVars>>

DecomposerNext == SearchPhone \/ SearchFixedPhone \/ ExtractParts

DecomposerSpec == DecomposerInit /\ [][DecomposerNext]_vars

(***************************************************************************)
(* Properties of the decomposer.                                           *)
(***************************************************************************)
\* the text has the form ADDRESS NAME PHONE with an 11-digit mobile number
AddressNamePhone ==
    input.address # <<>> /\ input.name # <<>> /\ input.phone = MobilePhone

\* C13: for a text of the form ADDRESS NAME PHONE the returned address
\* followed by the returned name is the text before the phone, tokens in
\* their original order, blanks aside.
C13_RoundTrip ==
    (stage = "extracted" /\ AddressNamePhone)
        => Squeeze(output.address \o output.person_name)
             = Squeeze(JoinBlank(input.address) \o input.name)

\* an 11-character window of the text that is a mobile number
MobileSomewhere ==
    \E i \in 1..(Len(input.text) - 10) :
        /\ input.text[i] = "1"
        /\ input.text[i + 1] \in {"3", "4", "5", "6", "7", "8", "9"}
        /\ \A j \in 2..10 : input.text[i + j] \in Digits

\* C14: for a text of the form ADDRESS NAME PHONE the returned phone is
\* exactly PHONE; the phone is one match of one pattern or empty; and the
\* fixed-line pattern is searched only when the mobile pattern matches
\* nowhere in the text.
C14_Phone ==
    /\ (stage \in {"split", "extracted"} /\ AddressNamePhone)
          => output.phone = input.phone
    /\ stage \in {"split", "extracted"}
          => \/ output.phone = <<>>
             \/ \E pattern \in {"PHONE_PATTERN", "FIXED_PHONE_PATTERN"} :
                    MatchLenAt(pattern, output.phone, 1) = Len(output.phone)
    /\ (\/ stage = "fixed_phone"
        \/ \E k \in DOMAIN output.searched : output.searched[k] = "FIXED_PHONE_PATTERN")
          => ~MobileSomewhere
    /\ ~MobileSomewhere /\ stage \in {"split", "extracted"}
          => output.searched = <<"PHONE_PATTERN", "FIXED_PHONE_PATTERN">>

C14_Witness ==
    /\ stage = "extracted"
    /\ AddressNamePhone
    /\ Len(input.address) = 2
    /\ output.phone = MobilePhone
    /\ output.searched = <<"PHONE_PATTERN">>


\* the tokens of the text before the phone
TokensBeforePhone == split(strip(output.text_before_phone))

\* the index of the first token with an address keyword or a digit, 0 if
\* there is none
FirstKeyed ==
    LET keyed == {i \in DOMAIN TokensBeforePhone :
                     has_keyword(TokensBeforePhone[i]) \/ has_number(TokensBeforePhone[i])}
    IN IF keyed = {} THEN 0 ELSE CHOOSE i \in keyed : \A o \in keyed : i <= o

\* the index of the first token, from FirstKeyed on, that is a bare run of
\* 2-4 Chinese characters without an address keyword, 0 if there is none
FirstName ==
    LET names == {i \in DOMAIN TokensBeforePhone :
                     /\ FirstKeyed > 0 /\ i >= FirstKeyed
                     /\ Len(TokensBeforePhone[i]) \in 2..4
                     /\ \A j \in DOMAIN TokensBeforePhone[i] : TokensBeforePhone[i][j] \in Hanzi
                     /\ ~has_keyword(TokensBeforePhone[i])}
    IN IF names = {} THEN 0 ELSE CHOOSE i \in names : \A o \in names : i <= o

\* the concatenations of distinct tokens among the first n, in any order
Arrangements(tokens, n) ==
    LET RECURSIVE Cat(_, _)
        Cat(o, m) == IF m = 0 THEN <<>> ELSE Cat(o, m - 1) \o tokens[o[m]]
    IN UNION { { Cat(o, m) : o \in {q \in [1..m -> 1..n] :
                                       \A i \in 1..m : \A j \in 1..m : q[i] = q[j] => i = j} } :
               m \in 0..n }

\* C22: when a token from address_start_idx on is a bare name, the returned
\* name is, or ends with a blank and, the first such token and all tokens
\* after it joined by single blanks, and the address is made of tokens before
\* it only.
C22_NameTerminatesAddress ==
    (stage = "extracted" /\ FirstName > 0) =>
        LET tail == JoinBlank(SubSeq(TokensBeforePhone, FirstName, Len(TokensBeforePhone)))
            n == Len(output.person_name) - Len(tail)
        IN /\ n >= 0
           /\ Drop(output.person_name, n) = tail
           /\ n > 0 => output.person_name[n] = " "
           /\ Squeeze(output.address) \in Arrangements(TokensBeforePhone, FirstName - 1)

\* a token with a keyword follows the name that ends the address
C22_Witness ==
    /\ stage = "extracted"
    /\ FirstName = 2
    /\ Len(TokensBeforePhone) >= 4
    /\ has_keyword(TokensBeforePhone[3])
    /\ output.address = TokensBeforePhone[1]


\* C23: the address and the name returned for a text with a phone are those
\* returned for the text cut off right after that phone.
C23_AfterPhoneDiscarded ==
    (stage = "extracted" /\ output.phone # <<>>) =>
        LET cut == extract_components(output.text_before_phone \o output.phone)
        IN /\ cut.phone = output.phone
           /\ cut.address = output.address
           /\ cut.person_name = output.person_name

\* the tokens with an index in S, in their order
TokensIn(tokens, S) ==
    LET kept == SelectSeq([i \in DOMAIN tokens |-> i], LAMBDA i : i \in S)
    IN [k \in DOMAIN kept |-> tokens[kept[k]]]

\* the two sequences hold the same tokens the same number of times
SameTokens(s1, s2) ==
    /\ Len(s1) = Len(s2)
    /\ \A i \in DOMAIN s1 :
           Cardinality({j \in DOMAIN s1 : s1[j] = s1[i]})
               = Cardinality({j \in DOMAIN s2 : s2[j] = s1[i]})

\* the concatenations of all tokens with an index in S, in any order
ArrangementsOf(tokens, S) ==
    LET m == Cardinality(S)
        RECURSIVE Cat(_, _)
        Cat(o, k) == IF k = 0 THEN <<>> ELSE Cat(o, k - 1) \o tokens[o[k]]
    IN { Cat(o, m) : o \in {q \in [1..m -> S] :
                               \A i \in 1..m : \A j \in 1..m : q[i] = q[j] => i = j} }

\* C30: the tokens of the text before the phone fall into two groups, the
\* tokens of the returned name and the tokens the returned address is made
\* of, each token in exactly one group; and the address is not empty when a
\* token holds an address keyword or a digit.
C30_TokenPartition ==
    stage = "extracted" =>
        /\ \E S \in SUBSET DOMAIN TokensBeforePhone :
               /\ SameTokens(split(output.person_name),
                             TokensIn(TokensBeforePhone, DOMAIN TokensBeforePhone \ S))
               /\ Squeeze(output.address) \in ArrangementsOf(TokensBeforePhone, S)
        /\ FirstKeyed > 0 => output.address # <<>>

\* the keyword branch: a name before the first keyed token, two address
\* tokens and a name after them
C30_Witness ==
    /\ stage = "extracted"
    /\ FirstKeyed = 2
    /\ Len(TokensBeforePhone) = 4
    /\ Len(split(output.person_name)) = 2
    /\ output.address # <<>>

\* the branch without keyed token: a name and a token that is no name
C30_Fallback ==
    /\ stage = "extracted"
    /\ FirstKeyed = 0
    /\ Len(TokensBeforePhone) >= 2
    /\ output.person_name # <<>>
    /\ output.address # <<>>

(***************************************************************************)
(* convert_ner_to_address_format and the functions it calls.  Strings are  *)
(* character sequences, dictionaries are functions, d[k] = v is SetItem.   *)
(***************************************************************************)
\* longest generated list of NER entities
ConverterMaxEntities == 2

\* d[k] = v
SetItem(d, k, v) == [x \in DOMAIN d \cup {k} |-> IF x = k THEN v ELSE d[x]]

\* mutant: the default Data has no Name key
default_result_without_name ==
    [Data |-> [k \in Keys \ {"Name"} |-> <<>>], Success |-> TRUE,
     Reason |-> "DEFAULT_SUCCESS_REASON", ResultCode |-> "100"]

create_default_result ==
    [Data |-> [k \in Keys |-> <<>>], Success |-> TRUE,
     Reason |-> "DEFAULT_SUCCESS_REASON", ResultCode |-> "100"]

\* s sorted by the keys (keys[i] the key of s[i]), equal keys in their
\* order in s (list.sort(key=...))
SortedBy(s, keys) ==
    LET rank(i) == 1 + Cardinality({j \in DOMAIN s :
                         \/ keys[j] < keys[i]
                         \/ keys[j] = keys[i] /\ j < i})
    IN [p \in DOMAIN s |-> s[CHOOSE i \in DOMAIN s : rank(i) = p]]

\* entities_data is [format, items], an item [type, span, offset]: format
\* "output" is {"output": [[item], ...]} (an item of type "" stands for an
\* empty inner list), format "types" is {type: [item, ...], ...} in the
\* dictionary's order
parse_entity_list(entities_data, text) ==
    LET items == entities_data.items
        finds(span) == {i \in 0..(Len(text) - Len(span)) : StartsWith(Drop(text, i), span)}
        find(span) == IF span = <<>> \/ finds(span) = {} THEN -1
                      ELSE CHOOSE i \in finds(span) : \A o \in finds(span) : i <= o
        start(it) == IF Len(it.offset) >= 2 THEN it.offset[1] ELSE find(it.span)
        end(it) == IF Len(it.offset) >= 2 THEN it.offset[2]
                   ELSE IF start(it) >= 0 THEN start(it) + Len(it.span) ELSE -1
        kept == IF entities_data.format = "output"
                THEN SelectSeq(items, LAMBDA it : it.type # "")
                ELSE SelectSeq(items, LAMBDA it : it.span # <<>>)
    IN [i \in DOMAIN kept |->
           [type |-> kept[i].type, span |-> kept[i].span,
            start |-> IF entities_data.format = "output" THEN start(kept[i])
                      ELSE IF Len(kept[i].offset) >= 2 THEN kept[i].offset[1] ELSE -1,
            end |-> IF entities_data.format = "output" THEN end(kept[i])
                    ELSE IF Len(kept[i].offset) >= 2 THEN kept[i].offset[2] ELSE -1]]

\* the composite rule with the single-entity case dropped
find_keyword_location_entity(entity_list, mapping_config) ==
    LET entity_types == CategoryConfig(mapping_config, "ProvinceName").entity_types
        all_location_entities ==
            SelectSeq(entity_list, LAMBDA e : e.type \in entity_types)
        large == {i \in DOMAIN all_location_entities :
                     Cardinality({k \in ADDRESS_KEYWORDS :
                         Contains(all_location_entities[i].span, k)}) >= 3}
    IN IF large # {}
       THEN all_location_entities[CHOOSE i \in large : \A o \in large : i <= o].span
       ELSE <<>>

\* <<>> stands for None
find_large_location_entity(entity_list, mapping_config) ==
    LET entity_types == CategoryConfig(mapping_config, "ProvinceName").entity_types
        all_location_entities ==
            SelectSeq(entity_list, LAMBDA e : e.type \in entity_types)
        address_keywords_count(span) ==
            Cardinality({k \in ADDRESS_KEYWORDS : Contains(span, k)})
        large == {i \in DOMAIN all_location_entities :
                     address_keywords_count(all_location_entities[i].span) >= 3}
    IN IF large # {}
       THEN all_location_entities[CHOOSE i \in large : \A o \in large : i <= o].span
       ELSE IF Len(all_location_entities) = 1 /\ Len(all_location_entities[1].span) > 10
       THEN all_location_entities[1].span
       ELSE <<>>

fill_address_from_classified_entities(data, classified, entity_list, mapping_config) ==
    LET Sorted(b) == SortedBy(classified[b],
                        [i \in DOMAIN classified[b] |-> classified[b][i].start])
        First(d, b, key) ==
            IF classified[b] # <<>> THEN SetItem(d, key, Sorted(b)[1].span) ELSE d
        RECURSIVE Joined(_, _)
        Joined(s, n) == IF n = 0 THEN <<>> ELSE Joined(s, n - 1) \o s[n].span
        levels == First(First(First(First(data, "province", "ProvinceName"),
                                    "city", "CityName"),
                              "district", "ExpAreaName"),
                        "street", "StreetName")
        direct == IF classified["address"] # <<>>
                  THEN SetItem(levels, "Address",
                               Joined(Sorted("address"), Len(classified["address"])))
                  ELSE levels
        entity_types == CategoryConfig(mapping_config, "ProvinceName").entity_types
        locations == SelectSeq(entity_list, LAMBDA e : e.type \in entity_types)
        parsed == parse_chinese_address(locations[1].span)
        IfEmpty(d, key, v) == IF v # <<>> /\ d[key] = <<>> THEN SetItem(d, key, v) ELSE d
    IN IF (direct["ProvinceName"] = <<>> \/ direct["CityName"] = <<>>) /\ locations # <<>>
       THEN IfEmpty(IfEmpty(IfEmpty(IfEmpty(IfEmpty(direct,
                "ProvinceName", parsed.province), "CityName", parsed.city),
                "ExpAreaName", parsed.district), "StreetName", parsed.street),
                "Address", parsed.address)
       ELSE direct

get_address_ranges(entity_list, mapping_config) ==
    LET entity_types ==
            UNION {CategoryConfig(mapping_config, k).entity_types :
                       k \in HierarchyFields \cup {"Address"}}
        placed == SelectSeq(entity_list,
                      LAMBDA e : e.type \in entity_types /\ e.start >= 0 /\ e.end >= 0)
    IN [i \in DOMAIN placed |-> <<placed[i].start, placed[i].end>>]

\* the ranges sorted as tuples, overlapping ones merged
merge_address_ranges(ranges) ==
    LET sorted == SortedBy(ranges, [i \in DOMAIN ranges |-> ranges[i][1] * 1000 + ranges[i][2]])
        RECURSIVE Merged(_)
        Merged(n) ==
            IF n = 0 THEN <<>>
            ELSE IF n = 1 THEN <<sorted[1]>>
            ELSE LET m == Merged(n - 1)
                     last == m[Len(m)]
                 IN IF sorted[n][1] <= last[2]
                    THEN [m EXCEPT ![Len(m)] =
                             <<last[1], IF last[2] >= sorted[n][2] THEN last[2]
                                        ELSE sorted[n][2]>>]
                    ELSE Append(m, sorted[n])
    IN Merged(Len(sorted))

\* re.search(CHINESE_NAME_PATTERN, text_part) matches the whole part only
\* (the pattern is anchored at both ends)
find_name_in_non_address_text(text, address_ranges) ==
    LET merged_ranges == merge_address_ranges(address_ranges)
        Cut(n) == IF n > Len(text) THEN Len(text) ELSE n
        text_part(n) ==
            IF n % 2 = 1 THEN SubSeq(text, 1, Cut(merged_ranges[(n + 1) \div 2][1]))
            ELSE Drop(text, Cut(merged_ranges[n \div 2][2]))
        names == {n \in 1..(2 * Len(merged_ranges)) :
                     is_chinese_name(text_part(n)) /\ ~has_keyword(text_part(n))}
    IN IF names = {} THEN <<>>
       ELSE text_part(CHOOSE n \in names : \A o \in names : n <= o)

extract_name_from_entities(person_entities, text, address_ranges) ==
    LET name == SortedBy(person_entities,
                        [i \in DOMAIN person_entities |-> person_entities[i].start])[1].span
    IN IF person_entities # <<>> /\ ~has_keyword(name) THEN name
       ELSE find_name_in_non_address_text(text, address_ranges)

extract_phone_from_text(text) ==
    LET phone_match == re_search("PHONE_PATTERN", text)
    IN IF phone_match.found THEN SubSeq(text, phone_match.start + 1, phone_match.end)
       ELSE <<>>

\* ner_result is [error, text, entities]; output_schema is [mapping] or
\* [none]
convert_ner_to_address_format(ner_result, original_text, output_schema) ==
    LET res == create_default_result
        text == IF ner_result.text # <<>> THEN ner_result.text ELSE original_text
        entity_list == parse_entity_list(ner_result.entities, text)
        phone == extract_phone_from_text(text)
        WithMobile(d) == IF phone # <<>> THEN SetItem(d, "Mobile", phone) ELSE d
        mapping_config == IF "mapping" \in DOMAIN output_schema
                          THEN output_schema.mapping ELSE DEFAULT_ENTITY_MAPPING
        classified == classify_entities(entity_list, mapping_config)
        large_location_entity == find_large_location_entity(entity_list, mapping_config)
        parsed_address == parse_chinese_address(large_location_entity)
        filled ==
            IF large_location_entity # <<>>
            THEN SetItem(SetItem(SetItem(SetItem(SetItem(res.Data,
                     "ProvinceName", parsed_address.province),
                     "CityName", parsed_address.city),
                     "ExpAreaName", parsed_address.district),
                     "StreetName", parsed_address.street),
                     "Address", parsed_address.address)
            ELSE fill_address_from_classified_entities(res.Data, classified,
                                                       entity_list, mapping_config)
        name == extract_name_from_entities(classified["person"], text,
                    get_address_ranges(entity_list, mapping_config))
        named == IF name # <<>> THEN SetItem(filled, "Name", name) ELSE filled
    IN IF ner_result.error
       THEN [res EXCEPT !.Success = FALSE, !.Reason = "error",
                           !.ResultCode = "103"]
       ELSE IF entity_list = <<>>
       THEN [res EXCEPT !.Data = WithMobile(@)]
       ELSE [res EXCEPT !.Data = WithMobile(named)]

(***************************************************************************)
(* The extract route for the NER models: the converter, then               *)
(* complete_extract_response on its result.                                *)
(***************************************************************************)
\* the region table of the example address
ExtractStores ==
    { { Region(1, pp, <<"guang", "dong", "sheng">>, REGION_TYPE_PROVINCE, <<>>, 0),
        Region(2, 1, <<"shen", "zhen4", "shi">>, REGION_TYPE_CITY, <<>>, 0),
        Region(3, 2, <<"long", "gang", "qu">>, REGION_TYPE_EXP_AREA, <<>>, 0),
        Region(4, 3, <<"ban", "tian2", "jie", "dao">>, REGION_TYPE_STREET, <<>>, 0) } :
        pp \in {0, 1} }

\* the text is the first fifteen characters of the example address, a name
\* and possibly a mobile number; the items are spans of it with their
\* offsets (two of them single characters, one the eleven digits), an empty
\* span and an empty inner list (type "")
NerInputs ==
    LET address == SubSeq(GuangdongExample, 1, 13) \o <<"1", "hao">>
        Item(ty, from, to) ==
            [type |-> ty,
             span |-> SubSeq(address \o <<" ", "zhang", "san", " ">> \o MobilePhone,
                             from + 1, to),
             offset |-> <<from, to>>]
        pool == { Item("loc", 0, 3), Item("loc", 3, 6), Item("loc", 6, 9),
                  Item("loc", 9, 13), Item("loc", 13, 15), Item("loc", 0, 15),
                  Item("per", 16, 18), Item("per", 6, 9), Item("org", 0, 3),
                  Item("loc", 0, 1), Item("loc", 2, 3), Item("loc", 19, 30),
                  [type |-> "loc", span |-> <<>>, offset |-> <<>>],
                  [type |-> "", span |-> <<>>, offset |-> <<>>] }
        lists == UNION {[1..n -> pool] : n \in 0..ConverterMaxEntities}
        Grouped(l) == \A i \in DOMAIN l : \A j \in DOMAIN l : \A k \in DOMAIN l :
                          (i < j /\ j < k /\ l[i].type = l[k].type) => l[j].type = l[i].type
        NoOffsets(l) == [i \in DOMAIN l |-> [l[i] EXCEPT !.offset = <<>>]]
        entities == { [format |-> "output", items |-> l] : l \in lists }
                      \cup { [format |-> "output", items |-> NoOffsets(l)] : l \in lists }
                      \cup { [format |-> "types", items |-> l] : l \in {g \in lists : Grouped(g)} }
        texts == { address \o <<" ", "zhang", "san">>,
                   address \o <<" ", "zhang", "san", " ">> \o MobilePhone }
        schemas == { [none |-> TRUE],
                     [mapping |-> [DEFAULT_ENTITY_MAPPING EXCEPT
                                      !.ProvinceName = [entity_types |-> {"org"},
                                                        patterns |-> <<>>]]] }
    IN { [ner_result |-> [error |-> FALSE, text |-> tx, entities |-> e],
          original_text |-> tx, output_schema |-> sc] :
            tx \in texts, e \in entities, sc \in schemas }
       \cup { [ner_result |-> [error |-> TRUE, text |-> <<>>,
                               entities |-> [format |-> "output", items |-> <<>>]],
               original_text |-> tx, output_schema |-> [none |-> TRUE]] : tx \in texts }

\* the converter's result as complete_extract_response reads it
AsResponse(converted) ==
    [Data |-> [k \in DOMAIN converted.Data |-> Str(converted.Data[k])],
     DataPresent |-> TRUE, Success |-> converted.Success]

ExtractInit ==
    /\ input \in NerInputs
    /\ output = <<>>
    /\ stage = "ner"
    /\ store \in ExtractStores
    /\ response = [Data |-> EmptyRecord, DataPresent |-> FALSE, Success |-> FALSE]
    /\ given = response
    /\ result = response.Data
    /\ ret = response
    /\ pc = "unused"
    /\ query = NoQuery
    /\ current = None
    /\ level = 0
    /\ chain = EmptyChain
    /\ lookups = <<>>
    /\ pass = 1
    /\ failed = FALSE
    /\ excepted = FALSE
    /\ escaped = FALSE
    /\ ConcUnused

\* formatted_result = convert_ner_to_address_format(result, request.Content,
\* output_schema), handed to address_completer.complete_extract_response
ConvertNerToAddressFormat ==
    /\ stage = "ner"
    /\ output' = convert_ner_to_address_format(input.ner_result, input.original_text,
                                               input.output_schema)
    /\ stage' = "converted"
    /\ response' = AsResponse(output')
    /\ given' = response'
    /\ result' = response'.Data
    /\ ret' = response'
    /\ pc' = "idle"
    /\ UNCHANGED <<input, store, query, current, level, chain, lookups, pass, failed,
                   excepted, escaped, concVars>>

ExtractNext ==
    \/ ConvertNerToAddressFormat
    \/ CompleteExtractResponse
    \/ FindRegionByName
    \/ FindParentByTypeAndId
    \/ FindRegionById

ExtractSpec == ExtractInit /\ [][ExtractNext]_vars

\* C11: the Data of the converter's result, on the error path, the
\* no-entity path and the success path, and the Data that complete returns
\* for it, have exactly the seven keys ProvinceName, CityName, ExpAreaName,
\* StreetName, Address, Mobile, Name, each value a string; on the error path
\* all seven are empty, without entities all but Mobile are.
C11_SevenKeys ==
    LET Seven == {"ProvinceName", "CityName", "ExpAreaName", "StreetName",
                  "Address", "Mobile", "Name"}
    IN /\ stage = "converted" =>
             /\ DOMAIN output.Data = Seven
             /\ \A k \in DOMAIN output.Data : output.Data[k] \in Seq(Hanzi \cup Digits \cup {" "})
             /\ input.ner_result.error => \A k \in Seven : output.Data[k] = <<>>
             /\ input.ner_result.entities.items = <<>> =>
                    \A k \in Seven \ {"Mobile"} : output.Data[k] = <<>>
       /\ (stage = "converted" /\ pc = "done") =>
             /\ DOMAIN ret.Data = Seven
             /\ \A k \in DOMAIN ret.Data : ret.Data[k].k = "str"
             /\ ~escaped

\* a success-path record with empty fields that complete has filled
C11_Witness ==
    /\ stage = "converted"
    /\ pc = "done"
    /\ ~input.ner_result.error
    /\ output.Data["ProvinceName"] = <<>>
    /\ output.Data["Name"] = <<"zhang", "san">>
    /\ output.Data["Mobile"] = <<>>
    /\ ret.Data["ProvinceName"] = Str(<<"guang", "dong", "sheng">>)


\* the entity list and the mapping config of the conversion
ConvertedEntities ==
    parse_entity_list(input.ner_result.entities,
                      IF input.ner_result.text # <<>> THEN input.ner_result.text
                      ELSE input.original_text)

ConvertedMapping ==
    IF "mapping" \in DOMAIN input.output_schema THEN input.output_schema.mapping
    ELSE DEFAULT_ENTITY_MAPPING

\* the person bucket
PersonBucket == classify_entities(ConvertedEntities, ConvertedMapping)["person"]

\* C24: when the person bucket holds an entity whose span has no address
\* keyword, the Name of the record is the span of such an entity with the
\* smallest start.
C24_NameFromPersonBucket ==
    (stage = "converted" /\ ~input.ner_result.error) =>
        LET qualifying == {i \in DOMAIN PersonBucket : ~has_keyword(PersonBucket[i].span)}
        IN qualifying # {} =>
               \E i \in qualifying :
                   /\ \A o \in qualifying : PersonBucket[i].start <= PersonBucket[o].start
                   /\ output.Data["Name"] = PersonBucket[i].span


\* the text the entities are located in, and the merged address ranges
ConvertedText ==
    IF input.ner_result.text # <<>> THEN input.ner_result.text ELSE input.original_text

MergedRanges ==
    merge_address_ranges(get_address_ranges(ConvertedEntities, ConvertedMapping))

\* the name comes from the scan of the text: the person bucket is empty or
\* its first entity by start holds an address keyword
FallbackUsed ==
    /\ stage = "converted" /\ ~input.ner_result.error /\ ConvertedEntities # <<>>
    /\ \/ PersonBucket = <<>>
       \/ has_keyword(SortedBy(PersonBucket,
              [i \in DOMAIN PersonBucket |-> PersonBucket[i].start])[1].span)
    /\ output.Data["Name"] # <<>>

\* C25: a name found by the scan is 2 to 4 Han characters without address
\* keyword, at a place of the text that no merged address range overlaps.
C25_FallbackOutsideAddresses ==
    FallbackUsed =>
        LET name == output.Data["Name"]
        IN /\ Len(name) \in 2..4
           /\ \A i \in DOMAIN name : name[i] \in Hanzi
           /\ ~has_keyword(name)
           /\ \E p \in 0..(Len(ConvertedText) - Len(name)) :
                  /\ SubSeq(ConvertedText, p + 1, p + Len(name)) = name
                  /\ \A r \in DOMAIN MergedRanges :
                         \/ p + Len(name) <= MergedRanges[r][1]
                         \/ p >= MergedRanges[r][2]


\* the entities of the province entity-type set, in list order
ProvinceTyped ==
    SelectSeq(ConvertedEntities,
        LAMBDA e : e.type \in CategoryConfig(ConvertedMapping, "ProvinceName").entity_types)

KeywordsIn(span) == {k \in ADDRESS_KEYWORDS : Contains(span, k)}

\* the composite the rule names: <<>> when there is none
Composite ==
    LET typed == ProvinceTyped
        count == [i \in DOMAIN typed |-> Cardinality(KeywordsIn(typed[i].span))]
    IN IF \E i \in DOMAIN typed : count[i] >= 3
       THEN typed[CHOOSE i \in DOMAIN typed :
                /\ count[i] >= 3
                /\ \A o \in 1..(i - 1) : count[o] < 3].span
       ELSE IF Len(typed) = 1 /\ Len(typed[1].span) > 10
       THEN typed[1].span
       ELSE <<>>

\* C26: the composite is the first span of the province entity types with
\* three address keywords or, failing that, the only span of these types when
\* it is longer than ten characters; the five address fields of the record
\* are then the parse of the composite (looked at when the converter returns).
C26_CompositeDetection ==
    (stage = "converted" /\ pc = "idle" /\ ~input.ner_result.error) =>
        LET composite == Composite
            parsed == parse_chinese_address(composite)
        IN /\ find_large_location_entity(ConvertedEntities, ConvertedMapping) = composite
           /\ composite # <<>> =>
                  /\ output.Data["ProvinceName"] = parsed.province
                  /\ output.Data["CityName"] = parsed.city
                  /\ output.Data["ExpAreaName"] = parsed.district
                  /\ output.Data["StreetName"] = parsed.street
                  /\ output.Data["Address"] = parsed.address

\* the only entity of the province types is long and holds no keyword
C26_Witness ==
    /\ stage = "converted" /\ ~input.ner_result.error
    /\ Len(ProvinceTyped) = 1
    /\ KeywordsIn(ProvinceTyped[1].span) = {}
    /\ Composite # <<>>
    /\ output.Data["Address"] = Composite

\* the composite is the second entity of the province types
C26_SecondInList ==
    /\ stage = "converted" /\ ~input.ner_result.error
    /\ Len(ProvinceTyped) = 2
    /\ Composite = ProvinceTyped[2].span
    /\ Composite # ProvinceTyped[1].span
    /\ output.Data["ProvinceName"] = <<"guang", "dong", "sheng">>

(***************************************************************************)
(* Concurrent complete calls on the one AddressCompleter of the process    *)
(* (dependencies.py): each request thread runs complete_extract_response   *)
(* with its own response.  The variables response ... escaped are the      *)
(* locals of the running call, calls holds the locals of the suspended     *)
(* ones; the store is the only thing the calls share (the instance holds   *)
(* db, table_name and region_type_map, assigned in __init__ only).         *)
(***************************************************************************)
\* number of concurrent calls
NumCalls == 2

\* the locals of the running call
Locals ==
    [response |-> response, given |-> given, result |-> result, ret |-> ret,
     pc |-> pc, query |-> query, current |-> current, level |-> level,
     chain |-> chain, lookups |-> lookups, pass |-> pass, failed |-> failed,
     excepted |-> excepted, escaped |-> escaped]

\* mutant: current, level and chain are attributes of the shared instance
ResumedOnSharedWalk(saved) ==
    [saved EXCEPT !.current = current, !.level = level, !.chain = chain]

\* a call that is scheduled again finds its locals as it left them
Resumed(saved) == saved

ConcurrentInit ==
    /\ store \in {StoreOf(pp, 2, 2) : pp \in {0, 1}}
    /\ running = 1
    /\ \E rs \in [1..NumCalls ->
                     {r \in Responses :
                         /\ r.DataPresent
                         /\ r.Data["Name"] = Str(<<>>)
                         /\ r.Data["ProvinceName"] = Str(<<>>)
                         /\ <<r.Data["StreetName"], r.Data["ExpAreaName"], r.Data["CityName"]>>
                              \in { <<Str(<<"S">>), Str(<<>>), Str(<<>>)>>,
                                    <<Str(<<>>), Str(<<"D">>), Str(<<"Z">>)>>,
                                    <<Str(<<>>), Str(<<>>), Str(<<"K">>)>> }}] :
           /\ calls = [c \in 1..NumCalls |->
                          [response |-> rs[c], given |-> rs[c], result |-> rs[c].Data,
                           ret |-> rs[c], pc |-> "idle", query |-> NoQuery,
                           current |-> None, level |-> 0, chain |-> EmptyChain,
                           lookups |-> <<>>, pass |-> 1, failed |-> FALSE,
                           excepted |-> FALSE, escaped |-> FALSE]]
           /\ response = rs[1]
    /\ given = response
    /\ result = response.Data
    /\ ret = response
    /\ pc = "idle"
    /\ query = NoQuery
    /\ current = None
    /\ level = 0
    /\ chain = EmptyChain
    /\ lookups = <<>>
    /\ pass = 1
    /\ failed = FALSE
    /\ excepted = FALSE
    /\ escaped = FALSE
    /\ TextUnused

\* the scheduler suspends the running call and resumes another one
Switch ==
    \E c \in DOMAIN calls \ {running} :
        LET next == Resumed(calls[c]) IN
        /\ calls' = [calls EXCEPT ![running] = Locals]
        /\ running' = c
        /\ response' = next.response
        /\ given' = next.given
        /\ result' = next.result
        /\ ret' = next.ret
        /\ pc' = next.pc
        /\ query' = next.query
        /\ current' = next.current
        /\ level' = next.level
        /\ chain' = next.chain
        /\ lookups' = next.lookups
        /\ pass' = next.pass
        /\ failed' = next.failed
        /\ excepted' = next.excepted
        /\ escaped' = next.escaped
        /\ UNCHANGED <<store, textVars>>

ConcurrentNext ==
    \/ CompleteExtractResponse
    \/ FindRegionByName
    \/ FindParentByTypeAndId
    \/ FindRegionById
    \/ Switch

ConcurrentSpec == ConcurrentInit /\ [][ConcurrentNext]_vars

(***************************************************************************)
(* Properties of concurrent calls.                                         *)
(***************************************************************************)
\* what call c holds
StateOf(c) == IF c = running THEN Locals ELSE calls[c]

\* what complete_extract_response returns for resp when it runs alone on the
\* table st and its n-th store lookup raises iff raises[n] (cur, lvl, ch:
\* the walk before its n-th lookup)
RECURSIVE WalkAlone(_, _, _, _, _, _, _)
WalkAlone(st, resp, raises, n, cur, lvl, ch) ==
    LET w == WalkStep(cur, lvl, ch)
        raised == n <= Len(raises) /\ raises[n]
        row == IF w.query.kind = "id" THEN find_region_by_id(st, raised, w.query.id)
               ELSE find_parent_by_type_and_id(st, raised, w.query.type, w.query.id)
    IN IF ~w.more THEN Envelope(resp, UpdateFrom(resp.Data, 1, w.chain).res)
       ELSE WalkAlone(st, resp, raises, n + 1, row, lvl + 1, w.chain)

CompleteAlone(st, resp, raises) ==
    LET s == SelectStart(resp.Data)
        row == find_region_by_name(st, raises # <<>> /\ raises[1], s.value, s.type)
    IN IF ~resp.DataPresent THEN resp
       ELSE IF s.raised \/ ~s.found \/ ~NameQueryIssued(s.value) THEN resp
       ELSE IF row = None THEN resp
       ELSE WalkAlone(st, resp, raises, 2, row, 0, EmptyChain)

\* C17: in every interleaving of the calls, a call that has returned has
\* returned what it returns alone on the same store with the same lookup
\* outcomes; no step writes to the store; a step of the running call leaves
\* what the other calls hold unchanged, and a switch leaves what every call
\* holds unchanged.
C17_ReadOnlyConcurrency ==
    /\ [](\A c \in DOMAIN calls :
            StateOf(c).pc = "done" =>
                StateOf(c).ret =
                    CompleteAlone(store, StateOf(c).given,
                        [n \in DOMAIN StateOf(c).lookups |-> StateOf(c).lookups[n].raised]))
    /\ [][/\ store' = store
          /\ \A c \in DOMAIN calls :
                 (c # running \/ running' # running) => StateOf(c)' = StateOf(c)]_vars

\* the second call has returned a completed record while the first one,
\* called with another record, is suspended in the middle of its walk
C17_Witness ==
    /\ running = 2
    /\ pc = "done"
    /\ Len(lookups) >= 2
    /\ ret.Data # given.Data
    /\ calls[1].pc = "find_parent_by_type_and_id"
    /\ Len(calls[1].lookups) >= 2
    /\ calls[1].given # given


(***************************************************************************)
(* DatabaseConnection: get_cursor and execute_one under the store lookups  *)
(* of one call.  calls holds one record per get_cursor call: the           *)
(* connection and the cursor it made, the queries it sent, the transaction *)
(* of the connection (autocommit is off) and the position in get_cursor.   *)
(* pymysql's connect, execute, commit and rollback may raise.              *)
(***************************************************************************)
\* connection = self.get_connection(); cursor = connection.cursor(); yield.
\* When connect raises, connection is None: the except clause has nothing to
\* roll back and the finally clause nothing to close.
get_connection(ok) ==
    IF ok
    THEN [connection |-> "open", cursor |-> "open", queries |-> 0,
          transaction |-> "none", at |-> "yield", raised |-> FALSE]
    ELSE [connection |-> "none", cursor |-> "none", queries |-> 0,
          transaction |-> "none", at |-> "returned", raised |-> TRUE]

\* execute_one: cursor.execute(sql, params); return cursor.fetchone()
execute_one(c, ok) ==
    [c EXCEPT !.queries = @ + 1, !.transaction = "active",
              !.at = IF ok THEN "commit" ELSE "except"]

\* connection.commit() after the with block
commit(c, ok) ==
    IF ok THEN [c EXCEPT !.transaction = "committed", !.at = "finally"]
    ELSE [c EXCEPT !.at = "except"]

\* except Exception: connection.rollback(); log; raise
rollback(c, ok) ==
    [c EXCEPT !.transaction = IF ok THEN "rolled_back" ELSE @,
              !.at = "finally", !.raised = TRUE]

\* the finally clause with connection.close() missing
close_cursor_only(c) ==
    [c EXCEPT !.cursor = "closed", !.at = "returned"]

\* finally: cursor.close(); connection.close().  Closing the connection ends
\* a transaction that is still active.
close(c) ==
    [c EXCEPT !.cursor = "closed", !.connection = "closed",
              !.transaction = IF @ = "active" THEN "rolled_back" ELSE @,
              !.at = "returned"]

\* a store lookup is pending
LookupPending ==
    pc \in {"find_region_by_name", "find_region_by_id", "find_parent_by_type_and_id"}

\* the get_cursor call of the pending lookup is at position p
CursorAt(p) ==
    /\ LookupPending
    /\ Len(calls) = Len(lookups) + 1
    /\ calls[Len(calls)].at = p

ConnectionInit ==
    /\ store \in {StoreOf(pp, 2, 2) : pp \in {0, 1}}
    /\ response \in { r \in Responses :
                        /\ r.Data["StreetName"] \in {Str(<<>>), Str(<<"S">>)}
                        /\ r.Data["ExpAreaName"] \in {Str(<<>>), Str(<<"D">>)}
                        /\ r.Data["CityName"] \in {Str(<<>>), Str(<<"C">>)}
                        /\ r.Data["ProvinceName"] \in {Str(<<>>), Str(<<"P">>)}
                        /\ r.Data["Name"] = Str(<<>>) }
    /\ given = response
    /\ result = response.Data
    /\ ret = response
    /\ pc = "idle"
    /\ query = NoQuery
    /\ current = None
    /\ level = 0
    /\ chain = EmptyChain
    /\ lookups = <<>>
    /\ pass = 1
    /\ failed = FALSE
    /\ excepted = FALSE
    /\ escaped = FALSE
    /\ TextUnused
    /\ ConcUnused

\* with self.get_cursor() as cursor: up to the yield
GetCursor ==
    /\ LookupPending
    /\ Len(calls) = Len(lookups)
    /\ \E ok \in BOOLEAN : calls' = Append(calls, get_connection(ok))
    /\ UNCHANGED <<completerVars, textVars, running>>

ExecuteOne ==
    /\ CursorAt("yield")
    /\ \E ok \in BOOLEAN : calls' = [calls EXCEPT ![Len(calls)] = execute_one(@, ok)]
    /\ UNCHANGED <<completerVars, textVars, running>>

Commit ==
    /\ CursorAt("commit")
    /\ \E ok \in BOOLEAN : calls' = [calls EXCEPT ![Len(calls)] = commit(@, ok)]
    /\ UNCHANGED <<completerVars, textVars, running>>

Rollback ==
    /\ CursorAt("except")
    /\ \E ok \in BOOLEAN : calls' = [calls EXCEPT ![Len(calls)] = rollback(@, ok)]
    /\ UNCHANGED <<completerVars, textVars, running>>

Close ==
    /\ CursorAt("finally")
    /\ calls' = [calls EXCEPT ![Len(calls)] = close(@)]
    /\ UNCHANGED <<completerVars, textVars, running>>

\* execute_one has returned or raised: the lookup returns the row, or
\* catches the exception and returns None
NameLookupReturns ==
    /\ CursorAt("returned")
    /\ FindRegionByName
    /\ lookups'[Len(lookups')].raised = calls[Len(calls)].raised

TypedLookupReturns ==
    /\ CursorAt("returned")
    /\ FindParentByTypeAndId
    /\ lookups'[Len(lookups')].raised = calls[Len(calls)].raised

IdLookupReturns ==
    /\ CursorAt("returned")
    /\ FindRegionById
    /\ lookups'[Len(lookups')].raised = calls[Len(calls)].raised

ConnectionNext ==
    \/ CompleteExtractResponse
    \/ GetCursor
    \/ ExecuteOne
    \/ Commit
    \/ Rollback
    \/ Close
    \/ NameLookupReturns
    \/ TypedLookupReturns
    \/ IdLookupReturns

ConnectionSpec == ConnectionInit /\ [][ConnectionNext]_vars

\* the get_cursor calls that have returned
ReturnedCalls ==
    {i \in DOMAIN calls : i <= Len(lookups) \/ calls[i].at = "returned"}

\* C27: each lookup has its own get_cursor call; a call that has returned
\* holds no open connection, cursor or transaction, and sent exactly one
\* query if it got a connection; no call but the one in progress holds a
\* connection, so nothing is held from one lookup of the walk to the next.
C27_ConnectionLifecycle ==
    /\ Len(calls) \in {Len(lookups), Len(lookups) + 1}
    /\ \A i \in DOMAIN lookups : calls[i].raised = lookups[i].raised
    /\ \A i \in ReturnedCalls :
           /\ calls[i].at = "returned"
           /\ calls[i].connection \in {"none", "closed"}
           /\ calls[i].cursor \in {"none", "closed"}
           /\ calls[i].transaction # "active"
           /\ calls[i].connection = "closed" => calls[i].queries = 1
           /\ calls[i].connection = "none" => calls[i].queries = 0
    /\ \A i \in DOMAIN calls : calls[i].queries <= 1
    /\ pc = "done" => ReturnedCalls = DOMAIN calls

\* a walk has returned whose first lookup committed and one of whose later
\* lookups raised after it had connected
C27_Witness ==
    /\ pc = "done"
    /\ Len(calls) >= 2
    /\ calls[1].transaction = "committed"
    /\ \E i \in DOMAIN calls : calls[i].raised /\ calls[i].connection = "closed"
                                /\ calls[i].transaction = "rolled_back"

=============================================================================
